---------------------------- MODULE Spec2Model ----------------------------
(***************************************************************************)
(* Model of the time-series core of the data_scraper frontend:             *)
(*   - handleMissingValues / interpolateMissingValues (dataTransform)      *)
(*   - the chartData alignment step of TimeSeriesGraph                     *)
(*                                                                         *)
(* Both are pure functions.  Each gets a specification of its own whose    *)
(* initial states draw the inputs from bounded sets and whose action       *)
(* applies the function once: SpecPolicy and SpecAlign.                    *)
(*                                                                         *)
(* JavaScript numbers are modelled as records [k, n, d]:                   *)
(*   k = "null"  the value null                                            *)
(*   k = "nan"   NaN                                                       *)
(*   k = "inf"   +Infinity (n = 1) or -Infinity (n = -1)                   *)
(*   k = "num"   the finite number n/d, in lowest terms with d > 0         *)
(* Finite arithmetic is exact (rational); the rounding of IEEE doubles is  *)
(* not modelled, the special values NaN and +/-Infinity are.               *)
(***************************************************************************)
EXTENDS Integers, Sequences, FiniteSets, TLC

VARIABLES
    pc,         \* "policy" | "align": inputs chosen, function not yet applied;
                \* "policyDone" | "alignDone": the function has returned
    data,       \* handleMissingValues: the input points
    strategy,   \* handleMissingValues: the strategy argument
    result,     \* handleMissingValues: the returned points
    datasets,   \* TimeSeriesGraph: the datasets prop
    chartData,  \* TimeSeriesGraph: the rows computed by the chartData memo
    fmtValue,   \* formatValue: the value argument
    fmtUnits,   \* formatValue: the units argument
    formatted,  \* formatValue: what the call produced (a string or a throw)
    dateCall,   \* the date utilities: the function called and its arguments
    dateResult, \* the date utilities: what the call produced
    heap,       \* the objects in memory: the module's constants, the caller's
                \* override, the objects mergeConfig creates
    cfgArgs,    \* the resolver: the chart type and override of the last resolution
    cfgResult,  \* the resolver: what getDefaultConfig and mergeConfig returned
    palette,    \* the lines of the graph: config.colors
    strokes,    \* the lines of the graph: the stroke of each Line, in order
    metaUnits,  \* the tooltip: the units of each dataset's metadata object
    tooltip,    \* the tooltip: what CustomTooltip shows for the hovered row
    dash,       \* the dashboard: loading, error, selectedSource, directEntrySymbol,
                \* directEntryLoading (its datasets state is the variable datasets)
    request,    \* the dashboard: the fetch in flight
    response,   \* the dashboard: the last response or query result delivered
    ac,         \* AutocompleteInput: its value and disabled props and its state
    timer,      \* AutocompleteInput: the pending debounce timeout of the effect
    inflight,   \* AutocompleteInput: the getSuggestions calls not yet settled
    census,     \* CensusQueryBuilder: its useState values
    pending,    \* CensusQueryBuilder: the requests not yet settled
    callback    \* CensusQueryBuilder: the last call of onError or onQueryResult

policyVars == <<data, strategy, result>>
alignVars == <<datasets, chartData>>
formatVars == <<fmtValue, fmtUnits, formatted>>
dateVars == <<dateCall, dateResult>>
configVars == <<heap, cfgArgs, cfgResult>>
lineVars == <<palette, strokes>>
tooltipVars == <<metaUnits, tooltip>>
dashVars == <<dash, request, response>>
acVars == <<ac, timer, inflight>>
censusVars == <<census, pending, callback>>

\* the variables of the transformations, and those of the components that
\* put them on the screen
coreVars == <<policyVars, alignVars, formatVars, dateVars, configVars>>
uiVars == <<lineVars, tooltipVars, dashVars, acVars, censusVars>>

vars == <<pc, coreVars, uiVars>>

(***************************************************************************)
(* Bounds of the model.                                                    *)
(***************************************************************************)
\* longest input sequence given to handleMissingValues
MaxLen == 4
\* most points, over all datasets together, given to the alignment step
MaxPoints == 3

(***************************************************************************)
(* JavaScript number values.                                               *)
(***************************************************************************)
Null == [k |-> "null", n |-> 0, d |-> 0]
NaN == [k |-> "nan", n |-> 0, d |-> 0]
PosInf == [k |-> "inf", n |-> 1, d |-> 0]
NegInf == [k |-> "inf", n |-> -1, d |-> 0]

Abs(x) == IF x < 0 THEN -x ELSE x

RECURSIVE GCD(_, _)
GCD(a, b) == IF b = 0 THEN a ELSE GCD(b, a % b)

\* the finite number n/d (d # 0), in lowest terms
Rat(n, d) ==
    LET g == GCD(Abs(n), Abs(d))
        s == IF d < 0 THEN -1 ELSE 1
    IN  [k |-> "num", n |-> s * (n \div g), d |-> s * (d \div g)]

Num(n) == Rat(n, 1)

SignOf(x) == IF x.n > 0 THEN 1 ELSE IF x.n < 0 THEN -1 ELSE 0

\* x + y on numbers (IEEE: Infinity + -Infinity = NaN)
JsAdd(x, y) ==
    IF x.k = "nan" \/ y.k = "nan" THEN NaN
    ELSE IF x.k = "inf" /\ y.k = "inf" THEN (IF x.n = y.n THEN x ELSE NaN)
    ELSE IF x.k = "inf" THEN x
    ELSE IF y.k = "inf" THEN y
    ELSE Rat(x.n * y.d + y.n * x.d, x.d * y.d)

JsNeg(x) == [x EXCEPT !.n = -x.n]

\* x - y on numbers
JsSub(x, y) == JsAdd(x, JsNeg(y))

\* x * y on numbers (IEEE: Infinity * 0 = NaN)
JsMul(x, y) ==
    IF x.k = "nan" \/ y.k = "nan" THEN NaN
    ELSE IF x.k = "inf" \/ y.k = "inf"
         THEN (IF SignOf(x) * SignOf(y) = 0 THEN NaN
               ELSE [k |-> "inf", n |-> SignOf(x) * SignOf(y), d |-> 0])
    ELSE Rat(x.n * y.n, x.d * y.d)

\* values that are not of type number | null, as a malformed payload or a
\* missing row entry can supply them:
\*   k = "undefined"  the value undefined
\*   k = "strnum"     a string that reads as the finite number n/d ("12")
\*   k = "str"        a string that reads as no number ("abc")
Undefined == [k |-> "undefined", n |-> 0, d |-> 0]
StrText == [k |-> "str", n |-> 0, d |-> 0]
StrNum(n) == [k |-> "strnum", n |-> n, d |-> 1]

\* the ToNumber coercion that isNaN, Math.abs and / apply to their argument
ToNumber(v) ==
    CASE v.k = "null" -> [k |-> "num", n |-> 0, d |-> 1]
      [] v.k = "undefined" -> NaN
      [] v.k = "str" -> NaN
      [] v.k = "strnum" -> [v EXCEPT !.k = "num"]
      [] OTHER -> v

\* the number of decimal digits of the natural number n
RECURSIVE Digits(_)
Digits(n) == IF n < 10 THEN 1 ELSE 1 + Digits(n \div 10)

RECURSIVE Pow10(_)
Pow10(e) == IF e = 0 THEN 1 ELSE 10 * Pow10(e - 1)

\* s + x for a string s and a number x: the text of s followed by the text of
\* x.  For s the decimal text of an integer and x >= 0 it reads as a number
\* again ("6" + 3 is "63", "6" + 1.5 is "61.5"); followed by a minus sign,
\* "NaN" or "Infinity" it reads as none ("6-3").  Strings supplied as values
\* are texts of integers.
Concat(s, x) ==
    IF s.k = "str" \/ x.k # "num" \/ x.n < 0 THEN StrText
    ELSE LET whole == x.n \div x.d
             shifted == Abs(s.n) * Pow10(Digits(whole))
             sign == IF s.n < 0 THEN -1 ELSE 1
         IN  [Rat(sign * (shifted * x.d + x.n), x.d) EXCEPT !.k = "strnum"]

\* the + operator: concatenation when the left operand is a string
JsPlus(x, y) == IF x.k \in {"str", "strnum"} THEN Concat(x, y) ELSE JsAdd(x, y)

\* the global isNaN: true when the coerced argument is NaN (Infinity is not)
isNaN(v) == ToNumber(v).k = "nan"

\* value !== null && !isNaN(value): the test all three strategies use
IsValidValue(v) == v # Null /\ ~isNaN(v)

(***************************************************************************)
(* Dates.  A date string is a record [fmt, y, m, d]:                       *)
(*   fmt = "Y"    the four characters  YYYY              (m = d = 0)       *)
(*   fmt = "YMD"  the ten characters   YYYY-MM-DD                          *)
(*   fmt = "ISO"  YYYY-MM-DDT00:00:00.000Z, what toISOString returns for a *)
(*                Date at midnight UTC                                     *)
(* Two date strings are the same string iff the records are equal.         *)
(* A point's date is [kind |-> "string", str, time |-> 0] or a native Date *)
(* [kind |-> "Date", str |-> NoStr, time].  Every date of the model is at   *)
(* midnight UTC, so getTime() is 86400000 times a day number; time values  *)
(* are kept as that day number (days since 1970-01-01), which leaves every *)
(* comparison and every sign of a difference as in the code.               *)
(***************************************************************************)
NoStr == [fmt |-> "none", y |-> 0, m |-> 0, d |-> 0]

StrDate(fmt, y, m, d) ==
    [kind |-> "string", str |-> [fmt |-> fmt, y |-> y, m |-> m, d |-> d], time |-> 0]

\* days from 1970-01-01 to y-m-d in the proleptic Gregorian calendar (y >= 1970)
DaysFromCivil(y, m, d) ==
    LET yy == IF m <= 2 THEN y - 1 ELSE y
        era == yy \div 400
        yoe == yy - era * 400
        mp == IF m > 2 THEN m - 3 ELSE m + 9
        doy == (153 * mp + 2) \div 5 + d - 1
        doe == yoe * 365 + yoe \div 4 - yoe \div 100 + doy
    IN  era * 146097 + doe - 719468

\* the civil date [y, m, d] of a day number (the inverse of DaysFromCivil)
CivilFromDays(z0) ==
    LET z == z0 + 719468
        era == z \div 146097
        doe == z - era * 146097
        yoe == (doe - doe \div 1460 + doe \div 36524 - doe \div 146096) \div 365
        doy == doe - (365 * yoe + yoe \div 4 - yoe \div 100)
        mp == (5 * doy + 2) \div 153
        d == doy - (153 * mp + 2) \div 5 + 1
        m == IF mp < 10 THEN mp + 3 ELSE mp - 9
        y == yoe + era * 400 + (IF m <= 2 THEN 1 ELSE 0)
    IN  [y |-> y, m |-> m, d |-> d]

\* new Date(str).getTime(): every format of the model is read as UTC;
\* a bare year is the first instant of the year
DateStringTime(s) ==
    IF s.fmt = "Y" THEN DaysFromCivil(s.y, 1, 1)
    ELSE DaysFromCivil(s.y, s.m, s.d)

\* Date.prototype.toISOString for a Date at midnight UTC
toISOString(t) ==
    LET c == CivilFromDays(t)
    IN  [fmt |-> "ISO", y |-> c.y, m |-> c.m, d |-> c.d]

NativeDate(y, m, d) ==
    [kind |-> "Date", str |-> NoStr, time |-> DaysFromCivil(y, m, d)]

\* parseDate(date).getTime()
parseDate(date) ==
    IF date.kind = "Date" THEN date.time ELSE DateStringTime(date.str)

(***************************************************************************)
(* Strings whose characters the code inspects (the units hint) are         *)
(* sequences of one-character strings.  An optional string argument is     *)
(* [defined, chars]; NoUnits is the argument undefined.                    *)
(***************************************************************************)
NoUnits == [defined |-> FALSE, chars |-> <<>>]

Str(chars) == [defined |-> TRUE, chars |-> chars]

\* what a call of formatValue produced:
\*   kind = "N/A"       the string "N/A"
\*   kind = "fixed"     [-]whole.frac followed by suffix, frac two digits
\*   kind = "Infinity"  [-]Infinity followed by suffix
\*   kind = "TypeError" the call threw (value.toFixed is not a function)
\*   kind = "none"      not called yet
Output(kind, neg, whole, frac, suffix) ==
    [kind |-> kind, neg |-> neg, whole |-> whole, frac |-> frac, suffix |-> suffix]

NotFormatted == Output("none", FALSE, 0, 0, "")

\* a call of one of the date utilities: fn is "parseDate", "formatDate",
\* "filterDataByDateRange" or "sortDataByDate"; date is the date argument of
\* the first two, format the second argument of formatDate, points the data
\* argument of the last two, startDate and endDate the range of the filter
DateCall(fn, date, format, points, startDate, endDate) ==
    [fn |-> fn, date |-> date, format |-> format, points |-> points,
     startDate |-> startDate, endDate |-> endDate]

\* an optional date argument left undefined
NoDate == [kind |-> "undefined", str |-> NoStr, time |-> 0]

NoCall == DateCall("none", NoDate, "short", <<>>, NoDate, NoDate)

\* a Date object: valid with its time value (in days), or the Invalid Date,
\* whose getTime() is NaN
DateObject(time) == [valid |-> TRUE, time |-> time]

InvalidDate == [valid |-> FALSE, time |-> 0]

\* the string toLocaleDateString returns: the calendar date in the asked month
\* style, or the text "Invalid Date"
DateText(style, y, m, d) == [text |-> "date", style |-> style, y |-> y, m |-> m, d |-> d]

InvalidDateText == [text |-> "Invalid Date", style |-> "", y |-> 0, m |-> 0, d |-> 0]

\* what a call of a date utility produced: it threw, or it returned a Date
\* (parseDate), a string (formatDate) or data points (filter, sort)
DateResult(threw, date, text, points) ==
    [threw |-> threw, date |-> date, text |-> text, points |-> points]

NoResult == DateResult(FALSE, InvalidDate, InvalidDateText, <<>>)

(***************************************************************************)
(* Objects and their identity.  An object (an array too) lives in the heap *)
(* under an address; its content is a function from its own keys to        *)
(* values, so a key the object does not have is outside the DOMAIN while a *)
(* key set to undefined is inside it.  A value is [t, n, d, s]:            *)
(*   t = "undefined"             the value undefined                       *)
(*   t = "number"                the number n/d                            *)
(*   t = "boolean"               true (n = 1) or false (n = 0)             *)
(*   t = "string"                the string s                              *)
(*   t = "ref"                   a reference to the object at address      *)
(*                               [s, n]                                    *)
(***************************************************************************)
VUndefined == [t |-> "undefined", n |-> 0, d |-> 1, s |-> ""]
VNum(n) == [t |-> "number", n |-> n, d |-> 1, s |-> ""]
VFrac(n, d) == [t |-> "number", n |-> n, d |-> d, s |-> ""]
VBool(b) == [t |-> "boolean", n |-> IF b THEN 1 ELSE 0, d |-> 1, s |-> ""]
VStr(s) == [t |-> "string", n |-> 0, d |-> 1, s |-> s]
VRef(a) == [t |-> "ref", n |-> a.n, d |-> 1, s |-> a.s]

\* the address a reference holds
Addr(v) == [s |-> v.s, n |-> v.n]

\* the address of a module-level constant, and of the k-th object of a kind
\* created at run time
Const(name) == [s |-> name, n |-> 0]
Fresh(name, k) == [s |-> name, n |-> k]

DEFAULT_COLORS ==
    ("0" :> VStr("#8884d8")) @@ ("1" :> VStr("#82ca9d")) @@ ("2" :> VStr("#ffc658")) @@
    ("3" :> VStr("#ff7300")) @@ ("4" :> VStr("#0088fe")) @@ ("5" :> VStr("#00c49f")) @@
    ("6" :> VStr("#ffbb28")) @@ ("7" :> VStr("#ff8042"))

DEFAULT_MARGIN ==
    [top |-> VNum(20), right |-> VNum(30), left |-> VNum(20), bottom |-> VNum(20)]

\* the object literal { r: 6 } of the line default
ActiveDot == [r |-> VNum(6)]

DEFAULT_LINE_CHART_CONFIG ==
    [width |-> VStr("100%"), height |-> VNum(400),
     margin |-> VRef(Const("DEFAULT_MARGIN")), colors |-> VRef(Const("DEFAULT_COLORS")),
     showLegend |-> VBool(TRUE), showGrid |-> VBool(TRUE), responsive |-> VBool(TRUE),
     strokeWidth |-> VNum(2), dot |-> VBool(FALSE),
     activeDot |-> VRef(Const("DEFAULT_LINE_CHART_CONFIG.activeDot")),
     connectNulls |-> VBool(FALSE)]

DEFAULT_BAR_CHART_CONFIG ==
    [width |-> VStr("100%"), height |-> VNum(400),
     margin |-> VRef(Const("DEFAULT_MARGIN")), colors |-> VRef(Const("DEFAULT_COLORS")),
     showLegend |-> VBool(TRUE), showGrid |-> VBool(TRUE), responsive |-> VBool(TRUE),
     barSize |-> VNum(20), barCategoryGap |-> VStr("10%"), barGap |-> VNum(4)]

DEFAULT_AREA_CHART_CONFIG ==
    [width |-> VStr("100%"), height |-> VNum(400),
     margin |-> VRef(Const("DEFAULT_MARGIN")), colors |-> VRef(Const("DEFAULT_COLORS")),
     showLegend |-> VBool(TRUE), showGrid |-> VBool(TRUE), responsive |-> VBool(TRUE),
     strokeWidth |-> VNum(2), fillOpacity |-> VFrac(3, 5), connectNulls |-> VBool(FALSE)]

\* the heap once the module is loaded: its constants
ModuleHeap ==
    (Const("DEFAULT_COLORS") :> DEFAULT_COLORS) @@
    (Const("DEFAULT_MARGIN") :> DEFAULT_MARGIN) @@
    (Const("DEFAULT_LINE_CHART_CONFIG.activeDot") :> ActiveDot) @@
    (Const("DEFAULT_LINE_CHART_CONFIG") :> DEFAULT_LINE_CHART_CONFIG) @@
    (Const("DEFAULT_BAR_CHART_CONFIG") :> DEFAULT_BAR_CHART_CONFIG) @@
    (Const("DEFAULT_AREA_CHART_CONFIG") :> DEFAULT_AREA_CHART_CONFIG)

\* the arguments of a resolution: the chart type handed to getDefaultConfig
\* ("undefined" when it is left out) and the override handed to mergeConfig
\* (undefined, or a reference to the caller's object)
ConfigArgs(chartType, userConfig) == [chartType |-> chartType, userConfig |-> userConfig]

NoArgs == ConfigArgs("undefined", VUndefined)

\* what a resolution returned: the default getDefaultConfig picked and the
\* configuration mergeConfig returned, both references
Resolution(defaultConfig, config) == [defaultConfig |-> defaultConfig, config |-> config]

NoResolution == Resolution(VUndefined, VUndefined)

(***************************************************************************)
(* handleMissingValues and interpolateMissingValues.                       *)
(* Sequences are 1-based here; the code's index i is position i + 1.       *)
(***************************************************************************)
\* one pass of the for loop body at index i (0-based), on the loop state
\* st = [result, lastValidValue, lastValidIndex]
InterpolateBody(input, i, st) ==
    LET point == input[i + 1]
        value == point.value
    IN  IF IsValidValue(value)
        THEN LET fill == st.lastValidIndex >= 0 /\ st.lastValidIndex < i - 1
                         /\ st.lastValidValue # Null
                 gap == i - st.lastValidIndex
                 filled ==
                     [x \in 1..(i - st.lastValidIndex - 1) |->
                        LET j == st.lastValidIndex + x
                            ratio == Rat(j - st.lastValidIndex, gap)
                            interpolatedValue ==
                                JsPlus(st.lastValidValue,
                                       JsMul(JsSub(ToNumber(value),
                                                   ToNumber(st.lastValidValue)), ratio))
                        IN  [input[j + 1] EXCEPT !.value = interpolatedValue]]
             IN  [result |-> (IF fill THEN st.result \o filled ELSE st.result)
                                \o <<point>>,
                  lastValidValue |-> value,
                  lastValidIndex |-> i]
        ELSE [st EXCEPT !.result = Append(st.result, point)]

RECURSIVE InterpolateLoop(_, _, _)
InterpolateLoop(input, i, st) ==
    IF i < Len(input)
    THEN InterpolateLoop(input, i + 1, InterpolateBody(input, i, st))
    ELSE st

\* the loop started at index 1 instead of 0
interpolateMissingValues_FromOne(input) ==
    InterpolateLoop(input, 1,
        [result |-> <<>>, lastValidValue |-> Null, lastValidIndex |-> -1]).result

interpolateMissingValues(input) ==
    InterpolateLoop(input, 0,
        [result |-> <<>>, lastValidValue |-> Null, lastValidIndex |-> -1]).result

\* the predicate of the 'remove' filter
RemoveKeeps(point) == IsValidValue(point.value)

ZeroPoint(point) ==
    [point EXCEPT !.value = IF point.value = Null \/ isNaN(point.value)
                            THEN Num(0) ELSE point.value]

\* strat = "undefined" is the call handleMissingValues(data): the parameter
\* default 'remove' applies
handleMissingValues(input, strat) ==
    LET s == IF strat = "undefined" THEN "remove" ELSE strat
    IN  CASE s = "remove" -> SelectSeq(input, RemoveKeeps)
          [] s = "zero" -> [i \in 1..Len(input) |-> ZeroPoint(input[i])]
          [] s = "interpolate" -> interpolateMissingValues(input)
          [] OTHER -> input

(***************************************************************************)
(* Inputs of handleMissingValues.                                          *)
(***************************************************************************)
PolicyValues == {Null, NaN, PosInf, NegInf, Num(0), Num(6)}

\* "linear" stands for any string that is none of the three strategies
Strategies == {"remove", "zero", "interpolate", "undefined", "linear"}

\* the input is sorted by date: the point at position i is dated Jan 1 of
\* year 2019 + i
PolicyDate(i) == StrDate("YMD", 2019 + i, 1, 1)

PolicyInputs ==
    UNION {{[i \in 1..len |-> [date |-> PolicyDate(i), value |-> vs[i]]] :
              vs \in [1..len -> PolicyValues]} : len \in 0..MaxLen}

NoRows == <<>>

\* the variables of a component that a specification does not exercise
PolicyIdle == data = <<>> /\ strategy = "remove" /\ result = <<>>
AlignIdle == datasets = <<>> /\ chartData = NoRows
FormatIdle == fmtValue = Null /\ fmtUnits = NoUnits /\ formatted = NotFormatted
DatesIdle == dateCall = NoCall /\ dateResult = NoResult
ConfigIdle == heap = ModuleHeap /\ cfgArgs = NoArgs /\ cfgResult = NoResolution
CoreIdle == PolicyIdle /\ AlignIdle /\ FormatIdle /\ DatesIdle /\ ConfigIdle

\* config.colors left undefined
NoPalette == [defined |-> FALSE, items |-> <<>>]

LinesIdle == palette = NoPalette /\ strokes = <<>>

\* CustomTooltip returned null: nothing is shown
NoTooltip == [active |-> FALSE, title |-> InvalidDateText, entries |-> <<>>]

TooltipIdle == metaUnits = <<>> /\ tooltip = NoTooltip

\* the useState initial values of IndicatorDashboard; a string the code trims
\* is a sequence of characters
DashInit ==
    [loading |-> FALSE, error |-> "null", selectedSource |-> "fred",
     directEntrySymbol |-> <<>>, directEntryLoading |-> FALSE]

\* a fetch in flight: fetchSeries(seriesId) called by handleFetchSeries, on
\* behalf of handleDirectEntry or not, or fetchCommonIndicators()
Request(kind, seriesId, direct) == [kind |-> kind, seriesId |-> seriesId, direct |-> direct]

NoRequest == Request("none", <<>>, FALSE)

\* what was delivered last: the answer to a request (ok or not, with the ids
\* of the series it holds) or a census query result
Response(kind, seriesId, ok, ids) ==
    [kind |-> kind, seriesId |-> seriesId, ok |-> ok, ids |-> ids]

NoResponse == Response("none", <<>>, FALSE, <<>>)

DashIdle == dash = DashInit /\ request = NoRequest /\ response = NoResponse

\* AutocompleteInput as mounted: an empty value, its useState initial values
AcInit ==
    [value |-> <<>>, disabled |-> FALSE, suggestions |-> <<>>,
     showSuggestions |-> FALSE, selectedIndex |-> 0 - 1, loading |-> FALSE]

\* the timeout set by the effect, which keeps the value and disabled of the
\* render that set it
Timer(value, disabled) == [set |-> TRUE, value |-> value, disabled |-> disabled]

NoTimer == [set |-> FALSE, value |-> <<>>, disabled |-> FALSE]

AutocompleteIdle == ac = AcInit /\ timer = NoTimer /\ inflight = <<>>

\* CensusQueryBuilder before it is mounted: its useState initial values
CensusInit ==
    [loading |-> FALSE, datasetType |-> "", datasets |-> <<>>,
     selectedDataset |-> "", selectedYear |-> Null, variables |-> <<>>,
     selectedVariables |-> <<>>, geographies |-> <<>>]

\* a call of one of the callback props, and none made yet
Callback(fn, arg) == [fn |-> fn, arg |-> arg]

NoCallback == Callback("none", "")

CensusIdle == census = CensusInit /\ pending = <<>> /\ callback = NoCallback

UiIdle == LinesIdle /\ TooltipIdle /\ DashIdle /\ AutocompleteIdle /\ CensusIdle

InitPolicy ==
    /\ pc = "policy"
    /\ data \in PolicyInputs
    /\ strategy \in Strategies
    /\ result = <<>>
    /\ AlignIdle
    /\ FormatIdle
    /\ DatesIdle
    /\ ConfigIdle
    /\ UiIdle

ApplyPolicy ==
    /\ pc = "policy"
    /\ result' = handleMissingValues(data, strategy)
    /\ pc' = "policyDone"
    /\ UNCHANGED <<data, strategy, alignVars, formatVars, dateVars, configVars, uiVars>>

NextPolicy == ApplyPolicy

SpecPolicy == InitPolicy /\ [][NextPolicy]_vars

(***************************************************************************)
(* handleMissingValues on a malformed payload: values that are not of type *)
(* number | null.                                                          *)
(***************************************************************************)
MaxMalformedLen == 3

MalformedValues == {Null, NaN, Undefined, StrText, StrNum(6), Num(0), Num(4)}

MalformedInputs ==
    UNION {{[i \in 1..len |-> [date |-> PolicyDate(i), value |-> vs[i]]] :
              vs \in [1..len -> MalformedValues]} : len \in 0..MaxMalformedLen}

InitMalformed ==
    /\ pc = "policy"
    /\ data \in MalformedInputs
    /\ strategy \in Strategies
    /\ result = <<>>
    /\ AlignIdle
    /\ FormatIdle
    /\ DatesIdle
    /\ ConfigIdle
    /\ UiIdle

SpecMalformed == InitMalformed /\ [][NextPolicy]_vars

(***************************************************************************)
(* The chartData memo of TimeSeriesGraph.                                  *)
(*                                                                         *)
(* A row is the object {date, [id]: value, [id + "_metadata"]: metadata};  *)
(* it is modelled as [date, values, metadata] where values and metadata    *)
(* are functions whose domain is the set of dataset ids the row has a key  *)
(* for (an id outside the domain reads as undefined in the code).          *)
(* dataMap, a Map, is the sequence of its rows in insertion order; the key *)
(* of a row is its date field.                                             *)
(***************************************************************************)
NoMetadata == [ref |-> "undefined"]

EmptyObject == [x \in {} |-> Null]

\* point.date instanceof Date ? point.date.toISOString() : point.date
dateStr(point) ==
    IF point.date.kind = "Date" THEN toISOString(point.date.time)
    ELSE point.date.str

\* the Set allDates after the first pair of loops
allDates(ds) ==
    UNION {{dateStr(ds[k].data[i]) : i \in 1..Len(ds[k].data)} : k \in 1..Len(ds)}

\* the index in dataMap of the row whose key is key, 0 if there is none
RowIndex(dataMap, key) ==
    IF \E r \in 1..Len(dataMap) : dataMap[r].date = key
    THEN CHOOSE r \in 1..Len(dataMap) : dataMap[r].date = key
    ELSE 0

\* dataMap.set(dateStr, {date}) done for every point, not only when the key
\* is new: an existing row is replaced by an empty one
AddPoint_AlwaysSet(dataMap, dataset, point) ==
    LET key == dateStr(point)
        fresh == [date |-> key, values |-> (dataset.id :> point.value),
                  metadata |-> IF dataset.metadata # NoMetadata
                               THEN (dataset.id :> dataset.metadata)
                               ELSE EmptyObject]
        r == RowIndex(dataMap, key)
    IN  IF r = 0 THEN Append(dataMap, fresh) ELSE [dataMap EXCEPT ![r] = fresh]

\* a row keeps the first value a dataset wrote to it: a later point of the
\* same dataset at the same key changes nothing
AddPoint_FirstWins(dataMap, dataset, point) ==
    LET key == dateStr(point)
        withRow == IF RowIndex(dataMap, key) = 0
                   THEN Append(dataMap, [date |-> key, values |-> EmptyObject,
                                         metadata |-> EmptyObject])
                   ELSE dataMap
        r == RowIndex(withRow, key)
        row == withRow[r]
        valued == [row EXCEPT !.values = row.values @@ (dataset.id :> point.value)]
        tagged == IF dataset.metadata # NoMetadata
                  THEN [valued EXCEPT
                          !.metadata = (dataset.id :> dataset.metadata) @@ row.metadata]
                  ELSE valued
    IN  [withRow EXCEPT ![r] = tagged]

\* the body of the inner forEach: one point of one dataset
AddPoint(dataMap, dataset, point) ==
    LET key == dateStr(point)
        withRow == IF RowIndex(dataMap, key) = 0
                   THEN Append(dataMap, [date |-> key, values |-> EmptyObject,
                                         metadata |-> EmptyObject])
                   ELSE dataMap
        r == RowIndex(withRow, key)
        row == withRow[r]
        valued == [row EXCEPT !.values = (dataset.id :> point.value) @@ row.values]
        tagged == IF dataset.metadata # NoMetadata
                  THEN [valued EXCEPT
                          !.metadata = (dataset.id :> dataset.metadata) @@ row.metadata]
                  ELSE valued
    IN  [withRow EXCEPT ![r] = tagged]

RECURSIVE AddPoints(_, _, _)
AddPoints(dataMap, dataset, i) ==
    IF i > Len(dataset.data) THEN dataMap
    ELSE AddPoints(AddPoint(dataMap, dataset, dataset.data[i]), dataset, i + 1)

RECURSIVE AddDatasets(_, _, _)
AddDatasets(dataMap, ds, k) ==
    IF k > Len(ds) THEN dataMap
    ELSE AddDatasets(AddPoints(dataMap, ds[k], 1), ds, k + 1)

\* the sort comparator: new Date(a.date).getTime() - new Date(b.date).getTime()
CompareRows(a, b) == DateStringTime(a.date) - DateStringTime(b.date)

\* Array.prototype.sort is stable: a row goes before the first row that
\* compares greater, after every row that compares equal
InsertRow(sorted, row) ==
    LET later == {i \in 1..Len(sorted) : CompareRows(sorted[i], row) > 0}
        at == IF later = {} THEN Len(sorted) + 1
              ELSE CHOOSE i \in later : \A j \in later : i <= j
    IN  SubSeq(sorted, 1, at - 1) \o <<row>> \o SubSeq(sorted, at, Len(sorted))

RECURSIVE SortRows(_, _)
SortRows(rows, sorted) ==
    IF rows = <<>> THEN sorted
    ELSE SortRows(Tail(rows), InsertRow(sorted, Head(rows)))

ChartData(ds) ==
    IF Len(ds) = 0 THEN <<>>
    ELSE SortRows(AddDatasets(<<>>, ds, 1), <<>>)

(***************************************************************************)
(* Inputs of the alignment step.                                           *)
(***************************************************************************)
\* the same day written three ways, and an earlier day
AlignDates ==
    {StrDate("Y", 2020, 0, 0), StrDate("YMD", 2020, 1, 1), NativeDate(2020, 1, 1),
     StrDate("YMD", 2019, 7, 1)}

AlignValues == {Num(1), Null}

AlignPoints == [date : AlignDates, value : AlignValues]

\* dataset ids are unique within one render (the caller's duty)
Dataset(id, points, hasMetadata) ==
    [id |-> id, label |-> id, data |-> points,
     metadata |-> IF hasMetadata THEN [ref |-> id] ELSE NoMetadata]

PointSeqs == UNION {[1..len -> AlignPoints] : len \in 0..MaxPoints}

\* the datasets prop: no dataset (n = 0), one dataset holding flat (n = 1),
\* or two datasets that split flat at cut (n = 2)
MakeDatasets(n, flat, cut, ma, mb) ==
    IF n = 0 THEN <<>>
    ELSE IF n = 1 THEN <<Dataset("A", flat, ma)>>
    ELSE <<Dataset("A", SubSeq(flat, 1, cut), ma),
           Dataset("B", SubSeq(flat, cut + 1, Len(flat)), mb)>>

InitAlign ==
    /\ pc = "align"
    /\ \E n \in 0..2, flat \in PointSeqs, cut \in 0..MaxPoints, ma, mb \in BOOLEAN :
          /\ n = 0 => flat = <<>> /\ cut = 0 /\ ~ma /\ ~mb
          /\ n = 1 => cut = Len(flat) /\ ~mb
          /\ n = 2 => cut <= Len(flat)
          /\ datasets = MakeDatasets(n, flat, cut, ma, mb)
    /\ chartData = NoRows
    /\ PolicyIdle
    /\ FormatIdle
    /\ DatesIdle
    /\ ConfigIdle
    /\ UiIdle

Render ==
    /\ pc = "align"
    /\ chartData' = ChartData(datasets)
    /\ pc' = "alignDone"
    /\ UNCHANGED <<policyVars, datasets, formatVars, dateVars, configVars, uiVars>>

NextAlign == Render

SpecAlign == InitAlign /\ [][NextAlign]_vars

(***************************************************************************)
(* Properties of handleMissingValues, checked under SpecPolicy.            *)
(***************************************************************************)
\* a finite number: what the specification calls a valid value
IsFinite(v) == v.k = "num"

PolicyReturned(strat) == pc = "policyDone" /\ strategy = strat

\* positions p < q of data that bound a maximal run of null/NaN values
\* between two finite values
BoundsGap(p, q) ==
    /\ q > p + 1
    /\ IsFinite(data[p].value)
    /\ IsFinite(data[q].value)
    /\ \A m \in (p + 1)..(q - 1) : ~IsValidValue(data[m].value)

\* C1: 'interpolate' returns a sequence of exactly the input's length.
C1_InterpolateKeepsLength ==
    PolicyReturned("interpolate") => Len(result) = Len(data)

\* C6: for a maximal run of n missing points between a valid a and the next
\* valid b, every output point that carries the date of the k-th point of the
\* run has the value a + (b - a) * k / (n + 1), and there is such a point: no
\* missing value is left at the run's dates.
C6_InterpolatedRunValues ==
    PolicyReturned("interpolate") =>
        \A p, q \in 1..Len(data) :
            BoundsGap(p, q) =>
                \A k \in 1..(q - p - 1) :
                    LET a == data[p].value
                        b == data[q].value
                        expected == JsAdd(a, JsMul(JsSub(b, a), Rat(k, q - p)))
                        at == {o \in 1..Len(result) : result[o].date = data[p + k].date}
                    IN  /\ at # {}
                        /\ \A o \in at : result[o].value = expected

\* position i of data lies in a run of missing values with no valid value
\* before it
InLeadingRun(i) == \A j \in 1..i : ~IsValidValue(data[j].value)

\* position i of data lies in a run of missing values with no valid value
\* after it
InTrailingRun(i) == \A j \in i..Len(data) : ~IsValidValue(data[j].value)

\* C7: under 'interpolate' a missing point of a leading or trailing run is
\* returned unmodified, at the same position of the output.
C7_EndRunsUntouched ==
    PolicyReturned("interpolate") =>
        \A i \in 1..Len(data) :
            (InLeadingRun(i) \/ InTrailingRun(i)) =>
                i <= Len(result) /\ result[i] = data[i]

\* C8: 'interpolate' on a series whose points all have a valid numeric value
\* returns the input, point for point.
C8_InterpolateFullSeriesUnchanged ==
    PolicyReturned("interpolate") =>
        ((\A i \in 1..Len(data) : IsValidValue(data[i].value)) => result = data)

C8_Witness ==
    /\ PolicyReturned("interpolate")
    /\ Len(data) >= 3
    /\ \A i \in 1..Len(data) : IsValidValue(data[i].value)
    /\ \E i, j \in 1..Len(data) : data[i].value # data[j].value
    /\ result = data

KeepsFinite(point) == IsFinite(point.value)

\* C9: 'remove' returns exactly the input points whose value is neither null
\* nor non-finite (NaN, +Infinity, -Infinity), in their original order.
C9_RemoveKeepsExactlyFinite ==
    PolicyReturned("remove") => result = SelectSeq(data, KeepsFinite)

\* C10: 'zero' returns a sequence of the input's length in which every point
\* keeps its date, every null or non-finite value is 0 and every valid value
\* is unchanged.
C10_ZeroReplacesNonFinite ==
    PolicyReturned("zero") =>
        /\ Len(result) = Len(data)
        /\ \A i \in 1..Len(data) :
              /\ result[i].date = data[i].date
              /\ result[i].value = IF IsFinite(data[i].value) THEN data[i].value
                                   ELSE Num(0)

(***************************************************************************)
(* Properties of the alignment step, checked under SpecAlign.              *)
(***************************************************************************)
\* the points of the input: <<k, i>> is point i of dataset k
InputPoints ==
    {ki \in (1..Len(datasets)) \X (1..MaxPoints) : ki[2] <= Len(datasets[ki[1]].data)}

PointAt(ki) == datasets[ki[1]].data[ki[2]]

\* the calendar instant a row's date denotes
RowTime(row) == DateStringTime(row.date)

\* C2: the number of rows equals the number of distinct calendar instants
\* over all points of all datasets; no dataset gives no row.
C2_RowCountIsDistinctInstants ==
    pc = "alignDone" =>
        Len(chartData) = Cardinality({parseDate(PointAt(ki).date) : ki \in InputPoints})

\* C3: the rows are strictly ascending by calendar date.
C3_RowsStrictlyAscending ==
    pc = "alignDone" =>
        \A r \in 1..(Len(chartData) - 1) : RowTime(chartData[r]) < RowTime(chartData[r + 1])

\* C4: two points that denote the same calendar instant, however written and
\* in whichever datasets, have equal date keys and lie in the same row.
C4_SameInstantSameRow ==
    pc = "alignDone" =>
        \A p, q \in InputPoints :
            parseDate(PointAt(p).date) = parseDate(PointAt(q).date) =>
                /\ dateStr(PointAt(p)) = dateStr(PointAt(q))
                /\ RowIndex(chartData, dateStr(PointAt(p)))
                     = RowIndex(chartData, dateStr(PointAt(q)))

\* the positions of dataset k's points recorded at exactly the date key
PointsAtKey(k, key) ==
    {i \in 1..Len(datasets[k].data) : dateStr(datasets[k].data[i]) = key}

\* C5: a row's entry for a dataset is a value the dataset recorded at exactly
\* the row's date when it has a point there (the value of its only such
\* point when there is one), and is absent otherwise; every date of every
\* dataset has a row, and no row is dated otherwise.
C5_RowEntriesAreRecordedValues ==
    pc = "alignDone" =>
        /\ \A r \in 1..Len(chartData), k \in 1..Len(datasets) :
              LET row == chartData[r]
                  id == datasets[k].id
                  at == PointsAtKey(k, row.date)
              IN  IF at = {} THEN id \notin DOMAIN row.values
                  ELSE /\ id \in DOMAIN row.values
                       /\ \E i \in at : row.values[id] = datasets[k].data[i].value
        /\ \A ki \in InputPoints : RowIndex(chartData, dateStr(PointAt(ki))) # 0
        /\ \A r \in 1..Len(chartData) :
              \E ki \in InputPoints : dateStr(PointAt(ki)) = chartData[r].date

\* two datasets; a row where only one of them has an entry and a row where
\* both have different entries
C5_Witness ==
    /\ pc = "alignDone"
    /\ Len(datasets) = 2
    /\ \E r \in 1..Len(chartData) :
          /\ PointsAtKey(1, chartData[r].date) # {}
          /\ PointsAtKey(2, chartData[r].date) = {}
          /\ DOMAIN chartData[r].values = {datasets[1].id}
    /\ \E r \in 1..Len(chartData) :
          /\ DOMAIN chartData[r].values = {datasets[1].id, datasets[2].id}
          /\ chartData[r].values[datasets[1].id] # chartData[r].values[datasets[2].id]

\* C11: with a strategy string that is none of 'remove', 'zero',
\* 'interpolate', the result is the one 'remove' gives: points with null or
\* NaN values are dropped.
C11_UnknownStrategyRemoves ==
    PolicyReturned("linear") => result = handleMissingValues(data, "remove")

(***************************************************************************)
(* formatValue.                                                            *)
(***************************************************************************)
UpperCase ==
    <<"A", "B", "C", "D", "E", "F", "G", "H", "I", "J", "K", "L", "M",
      "N", "O", "P", "Q", "R", "S", "T", "U", "V", "W", "X", "Y", "Z">>

LowerCase ==
    <<"a", "b", "c", "d", "e", "f", "g", "h", "i", "j", "k", "l", "m",
      "n", "o", "p", "q", "r", "s", "t", "u", "v", "w", "x", "y", "z">>

\* String.prototype.toLowerCase
toLowerCase(chars) ==
    [i \in 1..Len(chars) |->
        IF \E u \in 1..Len(UpperCase) : UpperCase[u] = chars[i]
        THEN LowerCase[CHOOSE u \in 1..Len(UpperCase) : UpperCase[u] = chars[i]]
        ELSE chars[i]]

\* String.prototype.includes
includes(chars, sub) ==
    \E i \in 0..(Len(chars) - Len(sub)) : SubSeq(chars, i + 1, i + Len(sub)) = sub

PercentWord == <<"p", "e", "r", "c", "e", "n", "t">>
PercentSign == <<"%">>
IndexWord == <<"i", "n", "d", "e", "x">>

\* 'percent' looked for in units as written, without toLowerCase()
IsPercentUnits_CaseSensitive(u) ==
    u.defined /\ (includes(u.chars, PercentWord) \/ includes(u.chars, PercentSign))

\* units?.toLowerCase().includes('percent') || units?.includes('%')
IsPercentUnits(u) ==
    u.defined /\ (includes(toLowerCase(u.chars), PercentWord) \/ includes(u.chars, PercentSign))

\* units?.toLowerCase().includes('index')
IsIndexUnits(u) == u.defined /\ includes(toLowerCase(u.chars), IndexWord)

\* Number.prototype.toFixed(2) on a number, followed by suffix: the nearest
\* hundredth, a tie going away from zero; the sign is kept
toFixed2(x, suffix) ==
    IF x.k = "inf" THEN Output("Infinity", x.n < 0, 0, 0, suffix)
    ELSE LET whole == Abs(x.n) \div x.d
             rem == Abs(x.n) % x.d
             hundredths == (rem * 200 + x.d) \div (2 * x.d)
         IN  IF hundredths = 100 THEN Output("fixed", x.n < 0, whole + 1, 0, suffix)
             ELSE Output("fixed", x.n < 0, whole, hundredths, suffix)

\* value.toFixed(2) on the argument itself: only a number has the method
ValueToFixed2(v, suffix) ==
    IF v.k \in {"num", "inf"} THEN toFixed2(v, suffix)
    ELSE Output("TypeError", FALSE, 0, 0, "")

\* value >= bound, Math.abs forgotten
AbsAtLeast_NoAbs(v, bound) ==
    LET x == ToNumber(v)
    IN  (x.k = "inf" /\ x.n > 0) \/ (x.k = "num" /\ x.n >= 0 /\ x.n \div x.d >= bound)

\* Math.abs(value) >= bound, for an integer bound
AbsAtLeast(v, bound) ==
    LET x == ToNumber(v)
    IN  x.k = "inf" \/ (x.k = "num" /\ Abs(x.n) \div x.d >= bound)

\* value / divisor, for an integer divisor
JsDivInt(v, divisor) ==
    LET x == ToNumber(v)
    IN  IF x.k = "num" THEN Rat(x.n, x.d * divisor) ELSE x

Billion == 1000000000
Million == 1000000
Thousand == 1000

formatValue(v, u) ==
    IF v = Null \/ isNaN(v) THEN Output("N/A", FALSE, 0, 0, "")
    ELSE IF IsPercentUnits(u) THEN ValueToFixed2(v, "%")
    ELSE IF IsIndexUnits(u) THEN ValueToFixed2(v, "")
    ELSE IF AbsAtLeast(v, Billion) THEN toFixed2(JsDivInt(v, Billion), "B")
    ELSE IF AbsAtLeast(v, Million) THEN toFixed2(JsDivInt(v, Million), "M")
    ELSE IF AbsAtLeast(v, Thousand) THEN toFixed2(JsDivInt(v, Thousand), "K")
    ELSE ValueToFixed2(v, "")

(***************************************************************************)
(* Inputs of formatValue.                                                  *)
(***************************************************************************)
\* numbers on both sides of every threshold, of both signs
FormatNumbers ==
    {Num(0), Rat(421, 10), Rat(-421, 10), Num(999), Num(1000), Num(-1500),
     Num(999999), Num(1000000), Num(-1500000), Num(999999999), Num(1000000000),
     Num(1500000000), Num(-1500000000)}

\* every value the alignment layer can hand over
FormatValues ==
    FormatNumbers \cup {Null, NaN, PosInf, NegInf, Undefined, StrText, StrNum(12), StrNum(1500)}

FormatUnits ==
    {NoUnits,
     Str(<<>>),
     Str(<<"P", "e", "r", "c", "e", "n", "t">>),
     Str(<<"%">>),
     Str(<<"I", "n", "d", "e", "x">>),
     Str(<<"P", "e", "r", "c", "e", "n", "t", " ", "I", "n", "d", "e", "x">>),
     Str(<<"I", "n", "d", "e", "x", " ", "%">>),
     Str(<<"U", "S", "D">>)}

InitFormat ==
    /\ pc = "format"
    /\ fmtValue \in FormatValues
    /\ fmtUnits \in FormatUnits
    /\ formatted = NotFormatted
    /\ PolicyIdle
    /\ AlignIdle
    /\ DatesIdle
    /\ ConfigIdle
    /\ UiIdle

CallFormatValue ==
    /\ pc = "format"
    /\ formatted' = formatValue(fmtValue, fmtUnits)
    /\ pc' = "formatDone"
    /\ UNCHANGED <<fmtValue, fmtUnits, policyVars, alignVars, dateVars, configVars, uiVars>>

NextFormat == CallFormatValue

SpecFormat == InitFormat /\ [][NextFormat]_vars

(***************************************************************************)
(* Properties of formatValue, checked under SpecFormat.                    *)
(***************************************************************************)
NA == Output("N/A", FALSE, 0, 0, "")

\* the hints of FormatUnits, sorted by hand: those that contain 'percent' in
\* some letter case or '%', those that contain 'index' in some letter case
\* and neither of the former, and the rest
PercentHints ==
    {Str(<<"P", "e", "r", "c", "e", "n", "t">>),
     Str(<<"%">>),
     Str(<<"P", "e", "r", "c", "e", "n", "t", " ", "I", "n", "d", "e", "x">>),
     Str(<<"I", "n", "d", "e", "x", " ", "%">>)}

IndexHints == {Str(<<"I", "n", "d", "e", "x">>)}

PlainHints == {NoUnits, Str(<<>>), Str(<<"U", "S", "D">>)}

\* C12: formatValue returns "N/A" for an absent value and for every
\* non-finite number (NaN, +Infinity, -Infinity), whatever the unit hint.
C12_NonFiniteIsNA ==
    (pc = "formatDone" /\ fmtValue \in {Null, Undefined, NaN, PosInf, NegInf})
        => formatted = NA

\* C13: for a finite value the first matching rule wins in the order percent,
\* index, magnitude: a percent hint gives the two-decimal value followed by
\* '%' even if the hint also holds 'index' or the value is >= 1000; otherwise
\* an index hint gives the plain two-decimal value with no suffix; only
\* otherwise is a K/M/B suffix possible.
C13_FirstMatchingRuleWins ==
    (pc = "formatDone" /\ fmtValue.k = "num") =>
        /\ fmtUnits \in PercentHints => formatted = toFixed2(fmtValue, "%")
        /\ fmtUnits \in IndexHints => formatted = toFixed2(fmtValue, "")
        /\ formatted.suffix \in {"K", "M", "B"} => fmtUnits \in PlainHints

\* a value >= 1000 under a hint that holds both 'Percent' and 'Index'
C13_Witness ==
    /\ pc = "formatDone"
    /\ fmtValue = Num(1000000)
    /\ fmtUnits = Str(<<"P", "e", "r", "c", "e", "n", "t", " ", "I", "n", "d", "e", "x">>)
    /\ formatted = Output("fixed", FALSE, 1000000, 0, "%")

\* the whole part of |v|: |v| >= b iff Magnitude(v) >= b for an integer b
Magnitude(v) == Abs(v.n) \div v.d

\* C14: for a finite value with no percent/index hint the suffix follows |v|
\* alone: 'B' with v/1e9 from 1e9, 'M' with v/1e6 from 1e6, 'K' with v/1e3
\* from 1e3, none below; the sign of v is kept.
C14_SuffixByMagnitude ==
    (pc = "formatDone" /\ fmtValue.k = "num" /\ fmtUnits \in PlainHints) =>
        LET m == Magnitude(fmtValue)
            scaled(by) == Rat(fmtValue.n, fmtValue.d * by)
        IN  /\ m >= 1000000000 => formatted = toFixed2(scaled(1000000000), "B")
            /\ (1000000 <= m /\ m < 1000000000) => formatted = toFixed2(scaled(1000000), "M")
            /\ (1000 <= m /\ m < 1000000) => formatted = toFixed2(scaled(1000), "K")
            /\ m < 1000 => formatted = toFixed2(fmtValue, "")
            /\ formatted.kind = "fixed"
            /\ formatted.neg = (fmtValue.n < 0)

\* a negative value gets the suffix of its magnitude and keeps its sign
C14_Witness ==
    /\ pc = "formatDone"
    /\ fmtValue = Num(-1500000)
    /\ fmtUnits = NoUnits
    /\ formatted = Output("fixed", TRUE, 1, 50, "M")

\* C15: formatValue is total: for every value (number, null, undefined, a
\* non-number from a malformed payload) and every unit hint it returns a
\* string and never throws; a value that is no number yields "N/A".
C15_FormatValueTotal ==
    pc = "formatDone" =>
        /\ formatted.kind # "TypeError"
        /\ fmtValue.k \in {"null", "undefined", "str", "nan"} => formatted = NA

(***************************************************************************)
(* The date utilities: parseDate, filterDataByDateRange, sortDataByDate    *)
(* and formatDate.  A date string the Date constructor cannot parse has    *)
(* fmt "bad"; new Date of it is the Invalid Date and nothing is thrown.    *)
(***************************************************************************)
BadDate == StrDate("bad", 0, 0, 0)

\* new Date(s) for a string s
NewDate(s) == IF s.fmt = "bad" THEN InvalidDate ELSE DateObject(DateStringTime(s))

\* parseDate(date), as the Date object it returns
parseDateObject(date) ==
    IF date.kind = "Date" THEN DateObject(date.time) ELSE NewDate(date.str)

\* Date.prototype.getTime, as a JS number
getTime(d) == IF d.valid THEN Num(d.time) ELSE NaN

\* x <= y on JS numbers: false as soon as one side is NaN
JsLeq(x, y) ==
    IF x.k = "nan" \/ y.k = "nan" THEN FALSE
    ELSE IF x = y THEN TRUE
    ELSE IF x = NegInf \/ y = PosInf THEN TRUE
    ELSE IF x = PosInf \/ y = NegInf THEN FALSE
    ELSE x.n * y.d <= y.n * x.d

\* !date for an optional string | Date argument
IsFalsy(date) == date.kind = "undefined"

RangeStart(startDate) ==
    IF IsFalsy(startDate) THEN NegInf ELSE getTime(parseDateObject(startDate))

RangeEnd(endDate) ==
    IF IsFalsy(endDate) THEN PosInf ELSE getTime(parseDateObject(endDate))

filterDataByDateRange(points, startDate, endDate) ==
    IF IsFalsy(startDate) /\ IsFalsy(endDate) THEN points
    ELSE LET start == RangeStart(startDate)
             end == RangeEnd(endDate)
             Keeps(point) ==
                 LET pointDate == getTime(parseDateObject(point.date))
                 IN  JsLeq(start, pointDate) /\ JsLeq(pointDate, end)
         IN  SelectSeq(points, Keeps)

\* the comparator of sortDataByDate: dateA - dateB, NaN when a date is invalid
CompareDates(a, b) ==
    JsSub(getTime(parseDateObject(a.date)), getTime(parseDateObject(b.date)))

RECURSIVE InsertPoint(_, _)
InsertPoint(sorted, p) ==
    IF sorted = <<>> THEN <<p>>
    ELSE IF SignOf(CompareDates(sorted[Len(sorted)], p)) <= 0 THEN Append(sorted, p)
    ELSE Append(InsertPoint(SubSeq(sorted, 1, Len(sorted) - 1), p), sorted[Len(sorted)])

RECURSIVE StableSort(_, _)
StableSort(points, sorted) ==
    IF points = <<>> THEN sorted
    ELSE StableSort(Tail(points), InsertPoint(sorted, Head(points)))

Reorderings(points) ==
    {[i \in 1..Len(points) |-> points[f[i]]] :
       f \in {g \in [1..Len(points) -> 1..Len(points)] :
                \A i, j \in 1..Len(points) : i # j => g[i] # g[j]}}

\* every date of the points parses
AllDatesValid(points) ==
    \A i \in 1..Len(points) : parseDateObject(points[i].date).valid

\* [...data].sort(comparator): the stable ascending order when the comparator
\* is consistent; with a NaN comparison it is not, and the order is then
\* implementation-defined: any permutation of the data
sortDataByDate(points) ==
    IF AllDatesValid(points) THEN {StableSort(points, <<>>)}
    ELSE Reorderings(points)

\* the hours the local time zone is from UTC put the local calendar day of a
\* UTC midnight on the same day (zones at or east of UTC) or on the day
\* before (zones west of it)
LocalDayShifts == {0 - 1, 0}

\* formatDate(date, format) in a time zone with the given day shift
formatDate(date, format, shift) ==
    LET d == parseDateObject(date)
    IN  IF ~d.valid THEN InvalidDateText
        ELSE LET c == CivilFromDays(d.time + shift)
             IN  DateText(IF format = "long" THEN "long" ELSE "short", c.y, c.m, c.d)

MaxDatePoints == 3

DateInputs ==
    {StrDate("Y", 2020, 0, 0), StrDate("YMD", 2020, 1, 1), NativeDate(2020, 1, 1),
     StrDate("YMD", 2019, 7, 1), BadDate}

RangeInputs == {NoDate, StrDate("YMD", 2019, 7, 1), StrDate("YMD", 2020, 1, 1), BadDate}

\* points with the given dates; the value of each point is its position in
\* the input, which tells the points apart after a filter or a sort
DatePoints(dates) == [i \in 1..Len(dates) |-> [date |-> dates[i], value |-> Num(i)]]

DatePointInputs ==
    UNION {{DatePoints(dates) : dates \in [1..len -> DateInputs]} : len \in 0..MaxDatePoints}

InitDates ==
    /\ pc = "dates"
    /\ \/ \E date \in DateInputs :
            dateCall = DateCall("parseDate", date, "short", <<>>, NoDate, NoDate)
       \/ \E date \in DateInputs, format \in {"short", "long"} :
            dateCall = DateCall("formatDate", date, format, <<>>, NoDate, NoDate)
       \/ \E points \in DatePointInputs, startDate, endDate \in RangeInputs :
            dateCall = DateCall("filterDataByDateRange", NoDate, "short", points,
                                startDate, endDate)
       \/ \E points \in DatePointInputs :
            dateCall = DateCall("sortDataByDate", NoDate, "short", points, NoDate, NoDate)
    /\ dateResult = NoResult
    /\ PolicyIdle
    /\ AlignIdle
    /\ FormatIdle
    /\ ConfigIdle
    /\ UiIdle

CallParseDate ==
    /\ pc = "dates"
    /\ dateCall.fn = "parseDate"
    /\ dateResult' = DateResult(FALSE, parseDateObject(dateCall.date), InvalidDateText, <<>>)
    /\ pc' = "datesDone"
    /\ UNCHANGED <<dateCall, policyVars, alignVars, formatVars, configVars, uiVars>>

CallFormatDate ==
    /\ pc = "dates"
    /\ dateCall.fn = "formatDate"
    /\ \E shift \in LocalDayShifts :
         dateResult' = DateResult(FALSE, InvalidDate,
                                  formatDate(dateCall.date, dateCall.format, shift), <<>>)
    /\ pc' = "datesDone"
    /\ UNCHANGED <<dateCall, policyVars, alignVars, formatVars, configVars, uiVars>>

CallFilterDataByDateRange ==
    /\ pc = "dates"
    /\ dateCall.fn = "filterDataByDateRange"
    /\ dateResult' = DateResult(FALSE, InvalidDate, InvalidDateText,
                                filterDataByDateRange(dateCall.points, dateCall.startDate,
                                                      dateCall.endDate))
    /\ pc' = "datesDone"
    /\ UNCHANGED <<dateCall, policyVars, alignVars, formatVars, configVars, uiVars>>

CallSortDataByDate ==
    /\ pc = "dates"
    /\ dateCall.fn = "sortDataByDate"
    /\ \E sorted \in sortDataByDate(dateCall.points) :
         dateResult' = DateResult(FALSE, InvalidDate, InvalidDateText, sorted)
    /\ pc' = "datesDone"
    /\ UNCHANGED <<dateCall, policyVars, alignVars, formatVars, configVars, uiVars>>

NextDates ==
    \/ CallParseDate
    \/ CallFormatDate
    \/ CallFilterDataByDateRange
    \/ CallSortDataByDate

SpecDates == InitDates /\ [][NextDates]_vars

(***************************************************************************)
(* Properties of the date utilities, checked under SpecDates.              *)
(***************************************************************************)
Unparseable(date) == date.kind = "string" /\ date.str.fmt = "bad"

\* the call was handed a date string that cannot be parsed: as the date of
\* parseDate or formatDate, as the date of a point, or as an end of the range
CallHasUnparseable ==
    \/ dateCall.fn \in {"parseDate", "formatDate"} /\ Unparseable(dateCall.date)
    \/ /\ dateCall.fn \in {"filterDataByDateRange", "sortDataByDate"}
       /\ \E i \in 1..Len(dateCall.points) : Unparseable(dateCall.points[i].date)
    \/ /\ dateCall.fn = "filterDataByDateRange"
       /\ Unparseable(dateCall.startDate) \/ Unparseable(dateCall.endDate)

\* C16: a date utility that is handed a date string which cannot be parsed
\* signals InvalidDate: it throws, and neither returns an invalid Date nor
\* returns a result computed from one.
C16_UnparseableDateThrows ==
    pc = "datesDone" /\ CallHasUnparseable => dateResult.threw

(***************************************************************************)
(* The configuration resolver: getDefaultConfig, then mergeConfig.         *)
(***************************************************************************)
\* the resolver with every chart type without a case resolved to the bar default
getDefaultConfig_DefaultBar(chartType) ==
    CASE chartType \in {"line", "undefined"} -> VRef(Const("DEFAULT_LINE_CHART_CONFIG"))
      [] chartType = "area" -> VRef(Const("DEFAULT_AREA_CHART_CONFIG"))
      [] OTHER -> VRef(Const("DEFAULT_BAR_CHART_CONFIG"))

\* the switch of getDefaultConfig; a chartType left out takes the parameter's
\* default 'line'
getDefaultConfig(chartType) ==
    LET type == IF chartType = "undefined" THEN "line" ELSE chartType
    IN  CASE type = "line" -> VRef(Const("DEFAULT_LINE_CHART_CONFIG"))
          [] type = "bar" -> VRef(Const("DEFAULT_BAR_CHART_CONFIG"))
          [] type = "area" -> VRef(Const("DEFAULT_AREA_CHART_CONFIG"))
          [] OTHER -> VRef(Const("DEFAULT_LINE_CHART_CONFIG"))

\* { ...a, ...b }: the keys of both, b's value where both have the key
Spread(a, b) == b @@ a

\* the own keys ...v copies: those of the object v refers to, none when v is
\* undefined
SpreadOf(h, v) == IF v.t = "ref" THEN h[Addr(v)] ELSE EmptyObject

\* the value of obj.key, undefined when the object has no such key
Get(obj, key) == IF key \in DOMAIN obj THEN obj[key] ELSE VUndefined

\* a merge that spreads the two configurations and stops there: the margin of
\* the result is the override's margin whenever the override has the key
mergeConfig_ShallowMargin(h, defaultConfig, userConfig, k) ==
    IF userConfig.t = "undefined" THEN [config |-> defaultConfig, heap |-> h]
    ELSE [config |-> VRef(Fresh("config", k)),
          heap |-> (Fresh("config", k) :> Spread(h[Addr(defaultConfig)], h[Addr(userConfig)]))
                   @@ h]

\* mergeConfig(defaultConfig, userConfig) run on the heap h as the k-th
\* resolution: the reference it returns and the heap it leaves
mergeConfig(h, defaultConfig, userConfig, k) ==
    IF userConfig.t = "undefined" THEN [config |-> defaultConfig, heap |-> h]
    ELSE LET d == h[Addr(defaultConfig)]
             u == h[Addr(userConfig)]
             margin == Spread(SpreadOf(h, Get(d, "margin")), SpreadOf(h, Get(u, "margin")))
             config == ("margin" :> VRef(Fresh("margin", k))) @@ Spread(d, u)
         IN  [config |-> VRef(Fresh("config", k)),
              heap |-> (Fresh("config", k) :> config) @@ (Fresh("margin", k) :> margin) @@ h]

ChartTypes == {"line", "bar", "area", "scatter", "pie", "undefined"}

\* what an override may say of a field: nothing (the key is left out), the
\* key with undefined, or the key with a value
Field(key, choice, v) ==
    CASE choice = "absent" -> EmptyObject
      [] choice = "undefined" -> key :> VUndefined
      [] OTHER -> key :> v

MarginOverrides ==
    {EmptyObject, ("top" :> VNum(5)), ("top" :> VUndefined),
     ("right" :> VNum(10)) @@ ("bottom" :> VNum(0))}

\* the caller's override object with its margin and colors, as heap entries
UserHeap(height, showGrid, margin, marginObject, colors) ==
    (Const("userConfig") :>
        (Field("height", height, VNum(300)) @@ Field("showGrid", showGrid, VBool(FALSE)) @@
         Field("margin", margin, VRef(Const("userConfig.margin"))) @@
         Field("colors", colors, VRef(Const("userConfig.colors"))))) @@
    (Const("userConfig.margin") :> marginObject) @@
    (Const("userConfig.colors") :> ("0" :> VStr("red")))

InitConfig ==
    /\ pc = "config"
    /\ \E height \in {"absent", "undefined", "value"}, showGrid \in {"absent", "value"},
          margin \in {"absent", "undefined", "value"}, marginObject \in MarginOverrides,
          colors \in {"absent", "value"} :
         /\ margin # "value" => marginObject = EmptyObject
         /\ heap = UserHeap(height, showGrid, margin, marginObject, colors) @@ ModuleHeap
    /\ cfgArgs = NoArgs
    /\ cfgResult = NoResolution
    /\ PolicyIdle
    /\ AlignIdle
    /\ FormatIdle
    /\ DatesIdle
    /\ UiIdle

\* one resolution, as TimeSeriesGraph does it: getDefaultConfig(chartType),
\* then mergeConfig(defaultConfig, userConfig); the first one, and one more
\* after the caller wrote to what the first returned
Resolve ==
    /\ pc \in {"config", "mutated"}
    /\ \E chartType \in ChartTypes, userConfig \in {VUndefined, VRef(Const("userConfig"))} :
         LET defaultConfig == getDefaultConfig(chartType)
             merged == mergeConfig(heap, defaultConfig, userConfig,
                                   IF pc = "config" THEN 1 ELSE 2)
         IN  /\ cfgArgs' = ConfigArgs(chartType, userConfig)
             /\ cfgResult' = Resolution(defaultConfig, merged.config)
             /\ heap' = merged.heap
    /\ pc' = IF pc = "config" THEN "resolved" ELSE "configDone"
    /\ UNCHANGED <<policyVars, alignVars, formatVars, dateVars, uiVars>>

\* obj[key] = v for the object at address a
Write(h, a, key, v) == [h EXCEPT ![a] = (key :> v) @@ h[a]]

\* the holder of a returned configuration writes to it: config.height = 999,
\* config.margin.top = 999 or config.colors[0] = '#000000'
Mutate ==
    /\ pc = "resolved"
    /\ LET a == Addr(cfgResult.config)
       IN  \/ heap' = Write(heap, a, "height", VNum(999))
           \/ /\ Get(heap[a], "margin").t = "ref"
              /\ heap' = Write(heap, Addr(heap[a].margin), "top", VNum(999))
           \/ /\ Get(heap[a], "colors").t = "ref"
              /\ heap' = Write(heap, Addr(heap[a].colors), "0", VStr("#000000"))
    /\ pc' = "mutated"
    /\ UNCHANGED <<cfgArgs, cfgResult, policyVars, alignVars, formatVars, dateVars, uiVars>>

NextConfig == Resolve \/ Mutate

SpecConfig == InitConfig /\ [][NextConfig]_vars

(***************************************************************************)
(* Properties of the configuration resolver, checked under SpecConfig.     *)
(***************************************************************************)
\* the first resolution has returned and nothing has been written since
FirstResolved == pc = "resolved"

OverrideGiven == cfgArgs.userConfig.t = "ref"

\* the configuration object the last resolution returned
ResolvedConfig == heap[Addr(cfgResult.config)]

\* its margin object, the empty object when its margin is no object
ResolvedMargin == SpreadOf(heap, Get(ResolvedConfig, "margin"))

\* the override object handed in, the empty object when none was
GivenOverride == SpreadOf(heap, cfgArgs.userConfig)

\* the margin object of the override, the empty object when it has none
GivenMargin == SpreadOf(heap, Get(GivenOverride, "margin"))

MarginKeys == {"top", "right", "bottom", "left"}

\* the margins of every default configuration, as written in the source
DefaultMarginValue(key) ==
    CASE key = "top" -> VNum(20)
      [] key = "right" -> VNum(30)
      [] key = "bottom" -> VNum(20)
      [] key = "left" -> VNum(20)

\* C17: the resolved margin has each of top, right, bottom and left, with the
\* override's value for a key the override's margin specifies and the
\* default's value for every other key; without a margin in the override, or
\* without an override, all four are the defaults.
C17_MarginMergedKeyByKey ==
    FirstResolved =>
        \A key \in MarginKeys :
            /\ key \in DOMAIN ResolvedMargin
            /\ ResolvedMargin[key] = IF key \in DOMAIN GivenMargin THEN GivenMargin[key]
                                     ELSE DefaultMarginValue(key)

\* an override of {margin: {top: 5}} was resolved: top is 5, right is still 30
C17_Witness ==
    /\ FirstResolved
    /\ OverrideGiven
    /\ GivenMargin = ("top" :> VNum(5))
    /\ ResolvedMargin = [top |-> VNum(5), right |-> VNum(30), bottom |-> VNum(20),
                         left |-> VNum(20)]

\* the keys every default configuration has, and those of each chart type
BaseKeys == {"width", "height", "margin", "colors", "showLegend", "showGrid", "responsive"}

DefaultKeys(chartType) ==
    CASE chartType = "bar" -> BaseKeys \cup {"barSize", "barCategoryGap", "barGap"}
      [] chartType = "area" -> BaseKeys \cup {"strokeWidth", "fillOpacity", "connectNulls"}
      [] OTHER -> BaseKeys \cup {"strokeWidth", "dot", "activeDot", "connectNulls"}

\* the override supplies a value for the key: it has the key, and not as undefined
Supplies(obj, key) == key \in DOMAIN obj /\ obj[key].t # "undefined"

\* C18: the resolved configuration is fully populated: every key of the chart
\* type's default configuration, and every margin key, has a defined value in
\* it, which is the override's where the override supplies one.
C18_FullyPopulated ==
    FirstResolved =>
        /\ \A key \in DefaultKeys(cfgArgs.chartType) :
             /\ Get(ResolvedConfig, key).t # "undefined"
             /\ key # "margin" /\ Supplies(GivenOverride, key) =>
                    ResolvedConfig[key] = GivenOverride[key]
        /\ \A key \in MarginKeys :
             /\ Get(ResolvedMargin, key).t # "undefined"
             /\ Supplies(GivenMargin, key) => ResolvedMargin[key] = GivenMargin[key]

\* C19: getDefaultConfig returns the line default for 'scatter' and for a
\* string that is no chart type, the bar default for 'bar', the area default
\* for 'area' and the line default for 'line'; it always returns.
C19_UnknownTypeIsLine ==
    FirstResolved =>
        /\ cfgArgs.chartType \in {"scatter", "pie", "line"} =>
               /\ cfgResult.defaultConfig = VRef(Const("DEFAULT_LINE_CHART_CONFIG"))
               /\ DOMAIN heap[Addr(cfgResult.defaultConfig)] = DefaultKeys("line")
        /\ cfgArgs.chartType = "bar" =>
               /\ cfgResult.defaultConfig = VRef(Const("DEFAULT_BAR_CHART_CONFIG"))
               /\ DOMAIN heap[Addr(cfgResult.defaultConfig)] = DefaultKeys("bar")
        /\ cfgArgs.chartType = "area" =>
               /\ cfgResult.defaultConfig = VRef(Const("DEFAULT_AREA_CHART_CONFIG"))
               /\ DOMAIN heap[Addr(cfgResult.defaultConfig)] = DefaultKeys("area")

\* 'scatter' was resolved and the default picked has the line chart's dot key
C19_Witness ==
    /\ FirstResolved
    /\ cfgArgs.chartType = "scatter"
    /\ "dot" \in DOMAIN heap[Addr(cfgResult.defaultConfig)]

\* the value v with every reference followed: what a reader of it sees
RECURSIVE Deep(_, _)
Deep(h, v) ==
    IF v.t = "ref"
    THEN [t |-> "object", fields |-> [key \in DOMAIN h[Addr(v)] |-> Deep(h, h[Addr(v)][key])]]
    ELSE [t |-> v.t, fields |-> ("value" :> v)]

\* the heap with the module's constants as they were when the module loaded
WithConstantsRestored(h) == ModuleHeap @@ h

\* the objects the configuration at v refers to
ReferencedBy(h, v) ==
    {h[Addr(v)][key] : key \in {k \in DOMAIN h[Addr(v)] : h[Addr(v)][k].t = "ref"}}

\* C20: a resolution returns a fresh object: never one of the default
\* configuration objects, with a margin that is not DEFAULT_MARGIN and no
\* other object of the defaults in it; and a resolution made after a returned
\* configuration was written to returns what it would have returned had
\* nothing been written.
C20_ResolutionIsFresh ==
    pc \in {"resolved", "configDone"} =>
        /\ Addr(cfgResult.config) \notin DOMAIN ModuleHeap
        /\ Get(ResolvedConfig, "margin") # VRef(Const("DEFAULT_MARGIN"))
        /\ \A v \in ReferencedBy(heap, cfgResult.config) : Addr(v) \notin DOMAIN ModuleHeap
        /\ pc = "configDone" =>
               LET clean == mergeConfig(WithConstantsRestored(heap),
                                        getDefaultConfig(cfgArgs.chartType),
                                        cfgArgs.userConfig, 2)
               IN  Deep(heap, cfgResult.config) = Deep(clean.heap, clean.config)

(***************************************************************************)
(* Further properties of the alignment step, checked under SpecAlign.      *)
(***************************************************************************)
\* C21: every row carries, for every dataset that has a metadata object, that
\* very object, whether or not the dataset has a point at the row's date.
C21_EveryRowHasEveryMetadata ==
    pc = "alignDone" =>
        \A r \in 1..Len(chartData), k \in 1..Len(datasets) :
            datasets[k].metadata # NoMetadata =>
                /\ datasets[k].id \in DOMAIN chartData[r].metadata
                /\ chartData[r].metadata[datasets[k].id] = datasets[k].metadata

\* the last of a non-empty set of positions
LastOf(positions) == CHOOSE i \in positions : \A j \in positions : j <= i

\* C27: when a dataset has several points with one date string, the row of
\* that date holds the value of the last of them in the dataset's order, and
\* the date has exactly one row.
C27_LastDuplicateWins ==
    pc = "alignDone" =>
        \A k \in 1..Len(datasets), key \in allDates(datasets) :
            Cardinality(PointsAtKey(k, key)) >= 2 =>
                /\ Cardinality({r \in 1..Len(chartData) : chartData[r].date = key}) = 1
                /\ chartData[RowIndex(chartData, key)].values[datasets[k].id]
                     = datasets[k].data[LastOf(PointsAtKey(k, key))].value

\* a dataset with two points at one date string, the first with a number and
\* the last with null: the row holds null
C27_Witness ==
    /\ pc = "alignDone"
    /\ \E k \in 1..Len(datasets), key \in allDates(datasets) :
          LET at == PointsAtKey(k, key)
          IN  /\ Cardinality(at) = 2
              /\ \E i \in at : i # LastOf(at) /\ datasets[k].data[i].value = Num(1)
              /\ datasets[k].data[LastOf(at)].value = Null
              /\ chartData[RowIndex(chartData, key)].values[datasets[k].id] = Null

(***************************************************************************)
(* handleMissingValues on values that are no numbers, checked under        *)
(* SpecMalformed.                                                          *)
(***************************************************************************)
\* a value of type number; the inputs here hold finite numbers only
IsNumber(v) == v.k \in {"num", "inf"}

\* the points with every value that is no number made absent
AsAbsent(points) ==
    [i \in 1..Len(points) |->
       [points[i] EXCEPT !.value = IF IsNumber(points[i].value) THEN points[i].value
                                   ELSE Null]]

\* C22: under 'remove', 'zero' and 'interpolate' a value that is present but
\* no number (NaN, undefined, a string) is treated as an absent one: the
\* result is, up to which non-number marks a remaining gap, the result for
\* the input with those values absent; no such value is kept by 'remove',
\* left by 'zero' or used as an endpoint by 'interpolate'.
C22_NonNumericIsAbsent ==
    pc = "policyDone" /\ strategy \in {"remove", "zero", "interpolate"} =>
        AsAbsent(result) = AsAbsent(handleMissingValues(AsAbsent(data), strategy))

(***************************************************************************)
(* The lines of TimeSeriesGraph: one Line per dataset, its stroke picked   *)
(* from config.colors or from DEFAULT_COLORS.                              *)
(***************************************************************************)
Palette(items) == [defined |-> TRUE, items |-> items]

\* the property key of an array index
IndexKey(i) == <<"0", "1", "2", "3", "4", "5", "6", "7">>[i + 1]

\* DEFAULT_COLORS.length
DefaultColorsLength == Cardinality(DOMAIN DEFAULT_COLORS)

\* DEFAULT_COLORS[i]
DefaultColor(i) == DEFAULT_COLORS[IndexKey(i)].s

\* a || b on a number a
OrNumber(a, b) == IF a # 0 THEN a ELSE b

\* colors?.[i]: undefined (here the empty string, which is as falsy) when
\* there is no palette or no such index
PaletteAt(colors, i) ==
    IF colors.defined /\ i < Len(colors.items) THEN colors.items[i + 1] ELSE ""

\* the stroke with the index always reduced modulo DEFAULT_COLORS.length
color_DefaultLength(colors, index) ==
    LET picked == PaletteAt(colors, index % DefaultColorsLength)
    IN  IF picked # "" THEN picked ELSE DefaultColor(index % DefaultColorsLength)

\* config.colors?.[index % (config.colors?.length || DEFAULT_COLORS.length)]
\*   || DEFAULT_COLORS[index % DEFAULT_COLORS.length]
color(colors, index) ==
    LET length == IF colors.defined THEN Len(colors.items) ELSE 0
        picked == PaletteAt(colors, index % OrNumber(length, DefaultColorsLength))
    IN  IF picked # "" THEN picked ELSE DefaultColor(index % DefaultColorsLength)

MaxLines == 9

LineIds == <<"A", "B", "C", "D", "E", "F", "G", "H", "I", "J", "K", "L">>

\* the datasets prop with n datasets; what a dataset holds plays no part in
\* the stroke of its line
LineDatasets(n) == [i \in 1..n |-> Dataset(LineIds[i], <<>>, FALSE)]

\* palettes of one, two, three and (longer than the default one) ten colours
Palettes ==
    {NoPalette, Palette(<<>>), Palette(<<"red">>), Palette(<<"red", "green">>),
     Palette(<<"red", "green", "blue">>),
     Palette(<<"c0", "c1", "c2", "c3", "c4", "c5", "c6", "c7", "c8", "c9">>)}

InitLines ==
    /\ pc = "lines"
    /\ \E n \in 0..MaxLines : datasets = LineDatasets(n)
    /\ chartData = NoRows
    /\ palette \in Palettes
    /\ strokes = <<>>
    /\ PolicyIdle
    /\ FormatIdle
    /\ DatesIdle
    /\ ConfigIdle
    /\ TooltipIdle
    /\ DashIdle
    /\ AutocompleteIdle
    /\ CensusIdle

\* datasets.map((dataset, index) => <Line stroke={color} ... />)
DrawLines ==
    /\ pc = "lines"
    /\ strokes' = [i \in 1..Len(datasets) |-> color(palette, i - 1)]
    /\ pc' = "linesDone"
    /\ UNCHANGED <<coreVars, palette, tooltipVars, dashVars, acVars, censusVars>>

NextLines == DrawLines

SpecLines == InitLines /\ [][NextLines]_vars

\* C24: the line of the dataset at position i (from 0) has the palette's
\* colour at i modulo the palette's length when the palette is not empty, and
\* the default palette's colour at i modulo its length when the palette is
\* missing or empty; every line has a colour.
C24_ColourByPositionModulo ==
    pc = "linesDone" =>
        /\ Len(strokes) = Len(datasets)
        /\ \A i \in 0..(Len(datasets) - 1) :
             /\ strokes[i + 1] # ""
             /\ strokes[i + 1] =
                  IF palette.defined /\ Len(palette.items) > 0
                  THEN palette.items[(i % Len(palette.items)) + 1]
                  ELSE <<"#8884d8", "#82ca9d", "#ffc658", "#ff7300",
                         "#0088fe", "#00c49f", "#ffbb28", "#ff8042">>[(i % 8) + 1]

\* nine lines on a palette of three colours: the fourth line has the first
\* colour again; and nine lines without a palette: the ninth has the first
\* default colour
C24_Witness ==
    /\ pc = "linesDone"
    /\ Len(datasets) = 9
    /\ palette = Palette(<<"red", "green", "blue">>)
    /\ strokes[4] = "red"
    /\ strokes[9] = "blue"

(***************************************************************************)
(* CustomTooltip.  The chart library calls it with the hovered row's date  *)
(* as label and one payload entry per Line whose value in the row is       *)
(* neither undefined nor null; entry.name is the dataset's label,          *)
(* entry.value the row's value for the dataset, entry.payload the row.     *)
(***************************************************************************)
\* row[key] for a row of chartData: the row object has the keys date, id and
\* id + "_metadata" of the datasets written to it; the ids here are single
\* letters, so the key "metadata" is none of the last kind
RowProperty(row, key) ==
    IF key \in DOMAIN row.values THEN row.values[key] ELSE Undefined

\* v?.units for a value that is undefined, null or a number
UnitsOfValue(v) == NoUnits

\* entry.payload?.metadata?.units
EntryUnits(row) == UnitsOfValue(RowProperty(row, "metadata"))

\* the payload entries of a row, in the order of the lines
RECURSIVE PayloadEntries(_, _, _)
PayloadEntries(ds, row, k) ==
    IF k > Len(ds) THEN <<>>
    ELSE LET id == ds[k].id
             shown == id \in DOMAIN row.values /\ row.values[id] # Null
             entry == [id |-> id, name |-> ds[k].label, value |-> row.values[id],
                       text |-> formatValue(row.values[id], EntryUnits(row))]
         IN  (IF shown THEN <<entry>> ELSE <<>>) \o PayloadEntries(ds, row, k + 1)

\* CustomTooltip({active: true, payload, label}) in a time zone with the given
\* day shift
CustomTooltip(ds, row, shift) ==
    LET entries == PayloadEntries(ds, row, 1)
        label == [kind |-> "string", str |-> row.date, time |-> 0]
    IN  IF Len(entries) = 0 THEN NoTooltip
        ELSE [active |-> TRUE, title |-> formatDate(label, "long", shift),
              entries |-> entries]

TooltipDates == {StrDate("YMD", 2020, 1, 1), StrDate("YMD", 2019, 7, 1)}

\* 42.1, 1500 and a missing observation
TooltipValues == {Rat(421, 10), Num(1500), Null}

\* metadata.units: left out, or a percent, an index or another unit
TooltipUnits ==
    {NoUnits, Str(<<"P", "e", "r", "c", "e", "n", "t">>), Str(<<"I", "n", "d", "e", "x">>),
     Str(<<"U", "S", "D">>)}

InitTooltip ==
    /\ pc = "align"
    /\ \E n \in 1..2, da, db \in TooltipDates, va, vb \in TooltipValues,
          ma, mb \in BOOLEAN, ua, ub \in TooltipUnits :
         /\ ~ma => ua = NoUnits
         /\ ~mb => ub = NoUnits
         /\ n = 1 => db = da /\ vb = va /\ ~mb
         /\ datasets = IF n = 1
                       THEN <<Dataset("A", <<[date |-> da, value |-> va]>>, ma)>>
                       ELSE <<Dataset("A", <<[date |-> da, value |-> va]>>, ma),
                              Dataset("B", <<[date |-> db, value |-> vb]>>, mb)>>
         /\ metaUnits = [A |-> ua, B |-> ub]
    /\ chartData = NoRows
    /\ tooltip = NoTooltip
    /\ PolicyIdle
    /\ FormatIdle
    /\ DatesIdle
    /\ ConfigIdle
    /\ LinesIdle
    /\ DashIdle
    /\ AutocompleteIdle
    /\ CensusIdle

\* the pointer is over the row r of the chart
Hover ==
    /\ pc = "alignDone"
    /\ \E r \in 1..Len(chartData), shift \in LocalDayShifts :
         tooltip' = CustomTooltip(datasets, chartData[r], shift)
    /\ pc' = "hover"
    /\ UNCHANGED <<coreVars, lineVars, metaUnits, dashVars, acVars, censusVars>>

NextTooltip == Render \/ Hover

SpecTooltip == InitTooltip /\ [][NextTooltip]_vars

\* the position in datasets of the dataset with the id
DatasetIndex(id) == CHOOSE k \in 1..Len(datasets) : datasets[k].id = id

\* C25: every entry of the tooltip shows its value formatted with the units
\* of its own dataset's metadata: by the percent rule when those units name a
\* percent, by the index rule when they name an index.
C25_TooltipUsesOwnUnits ==
    pc = "hover" =>
        \A e \in 1..Len(tooltip.entries) :
            LET entry == tooltip.entries[e]
                dataset == datasets[DatasetIndex(entry.id)]
            IN  dataset.metadata # NoMetadata =>
                    entry.text = formatValue(entry.value, metaUnits[entry.id])

(***************************************************************************)
(* IndicatorDashboard: the handlers that change its datasets state.  A     *)
(* control that the JSX disables cannot fire its handler.  The panel shown *)
(* follows selectedSource: the search results for a source that supports   *)
(* search ('fred'), the census query builder for 'census', the direct      *)
(* entry otherwise.                                                        *)
(***************************************************************************)
\* String.prototype.trim on a sequence of characters
RECURSIVE trim(_)
trim(chars) ==
    IF chars = <<>> THEN chars
    ELSE IF Head(chars) = " " THEN trim(Tail(chars))
    ELSE IF chars[Len(chars)] = " " THEN trim(SubSeq(chars, 1, Len(chars) - 1))
    ELSE chars

\* setDatasets updater with no check of the ids already present
AddDataset_NoCheck(prev, id) == Append(prev, Dataset(id, <<>>, TRUE))

\* the updater of setDatasets in handleFetchSeries and in onQueryResult
AddDataset(prev, id) ==
    IF \E i \in 1..Len(prev) : prev[i].id = id THEN prev
    ELSE Append(prev, Dataset(id, <<>>, TRUE))

\* `${response.source || 'fred'}_${response.series_id}`
SeriesDatasetId(source, series_id) ==
    (IF source = "" THEN "fred" ELSE source) \o "_" \o series_id

\* `census_${result.dataset}_${variable}`
CensusDatasetId(dataset, variable) == "census_" \o dataset \o "_" \o variable

Panel(source) ==
    IF source = "fred" THEN "search" ELSE IF source = "census" THEN "census" ELSE "direct"

Sources == {"fred", "census", "yfinance"}

Symbols == {<<>>, <<" ">>, <<"A">>, <<" ", "A", " ">>}

\* the series a response can hold: its source (left out, or given) and id
SeriesResponses == {<<"", "GDP">>, <<"fred", "GDP">>, <<"yfinance", "A">>}

\* the keys of response.series of fetchCommonIndicators, in their order
IndicatorKeys == {<<>>, <<"GDP">>, <<"fred_GDP">>, <<"GDP", "fred_GDP">>, <<"fred_GDP", "GDP">>}

\* the variables of a census query result that have at least one data point,
\* in the order of result.variables; a variable can be listed twice
CensusVariables == {<<>>, <<"B01">>, <<"B01", "B01">>, <<"B01", "B02">>}

InitDashboard ==
    /\ pc = "dashboard"
    /\ datasets = <<>>
    /\ chartData = NoRows
    /\ dash = DashInit
    /\ request = NoRequest
    /\ response = NoResponse
    /\ PolicyIdle
    /\ FormatIdle
    /\ DatesIdle
    /\ ConfigIdle
    /\ LinesIdle
    /\ TooltipIdle
    /\ AutocompleteIdle
    /\ CensusIdle

\* the source select's onChange
SelectSource ==
    /\ ~dash.directEntryLoading
    /\ \E source \in Sources :
         dash' = [dash EXCEPT !.selectedSource = source, !.directEntrySymbol = <<>>]
    /\ pc' = "sourceSelected"
    /\ UNCHANGED <<coreVars, lineVars, tooltipVars, request, response, acVars, censusVars>>

\* the direct entry input's onChange
TypeSymbol ==
    /\ Panel(dash.selectedSource) = "direct"
    /\ ~(dash.directEntryLoading \/ dash.loading)
    /\ \E text \in Symbols : dash' = [dash EXCEPT !.directEntrySymbol = text]
    /\ pc' = "typed"
    /\ UNCHANGED <<coreVars, lineVars, tooltipVars, request, response, acVars, censusVars>>

\* handleFetchSeries(result.series_id, selectedSource) from a search result's
\* button, up to its await
ClickFetchData ==
    /\ Panel(dash.selectedSource) = "search"
    /\ ~dash.loading
    /\ \E seriesId \in {<<"G", "D", "P">>} :
         request' = Request("series", seriesId, FALSE)
    /\ dash' = [dash EXCEPT !.loading = TRUE, !.error = "null"]
    /\ pc' = "fetching"
    /\ UNCHANGED <<coreVars, lineVars, tooltipVars, response, acVars, censusVars>>

\* handleDirectEntry up to the await inside the handleFetchSeries it calls
DirectEntry ==
    /\ Panel(dash.selectedSource) = "direct"
    /\ ~(dash.directEntryLoading \/ dash.loading)
    /\ trim(dash.directEntrySymbol) # <<>>
    /\ request' = Request("series", trim(dash.directEntrySymbol), TRUE)
    /\ dash' = [dash EXCEPT !.directEntryLoading = TRUE, !.loading = TRUE, !.error = "null"]
    /\ pc' = "fetching"
    /\ UNCHANGED <<coreVars, lineVars, tooltipVars, response, acVars, censusVars>>

\* fetchSeries settles: the rest of handleFetchSeries and, when
\* handleDirectEntry awaits it, the rest of handleDirectEntry.
\* handleFetchSeries catches what fetchSeries throws and returns normally, so
\* the await of handleDirectEntry never throws
SeriesSettles ==
    /\ request.kind = "series"
    /\ \E ok \in BOOLEAN, series \in SeriesResponses :
         LET id == SeriesDatasetId(series[1], series[2])
         IN  /\ ~ok => series = <<"", "GDP">>
             /\ datasets' = IF ok THEN AddDataset(datasets, id) ELSE datasets
             /\ response' = Response("series", request.seriesId, ok,
                                     IF ok THEN <<id>> ELSE <<>>)
             /\ dash' = [dash EXCEPT
                           !.error = IF ok THEN @ ELSE "Failed to fetch series",
                           !.loading = FALSE,
                           !.directEntrySymbol = IF request.direct THEN <<>> ELSE @,
                           !.directEntryLoading = IF request.direct THEN FALSE ELSE @]
             /\ pc' = IF request.direct THEN "directEntryDone" ELSE "seriesDone"
    /\ request' = NoRequest
    /\ UNCHANGED <<policyVars, chartData, formatVars, dateVars, configVars,
                   lineVars, tooltipVars, acVars, censusVars>>

\* handleFetchIndicators up to its await
FetchIndicators ==
    /\ ~dash.loading
    /\ dash' = [dash EXCEPT !.loading = TRUE, !.error = "null"]
    /\ datasets' = <<>>
    /\ request' = Request("indicators", <<>>, FALSE)
    /\ pc' = "fetching"
    /\ UNCHANGED <<policyVars, chartData, formatVars, dateVars, configVars,
                   lineVars, tooltipVars, response, acVars, censusVars>>

\* fetchCommonIndicators settles: the rest of handleFetchIndicators
IndicatorsSettle ==
    /\ request.kind = "indicators"
    /\ \E ok \in BOOLEAN, keys \in IndicatorKeys :
         /\ ~ok => keys = <<>>
         /\ datasets' = IF ok THEN [i \in 1..Len(keys) |-> Dataset(keys[i], <<>>, TRUE)]
                        ELSE datasets
         /\ response' = Response("indicators", <<>>, ok, keys)
         /\ dash' = [dash EXCEPT
                       !.error = IF ok THEN @ ELSE "Failed to fetch indicators",
                       !.loading = FALSE]
    /\ request' = NoRequest
    /\ pc' = "indicatorsDone"
    /\ UNCHANGED <<policyVars, chartData, formatVars, dateVars, configVars,
                   lineVars, tooltipVars, acVars, censusVars>>

RECURSIVE AddCensusVariables(_, _, _)
AddCensusVariables(prev, dataset, variables) ==
    IF variables = <<>> THEN prev
    ELSE AddCensusVariables(AddDataset(prev, CensusDatasetId(dataset, Head(variables))),
                            dataset, Tail(variables))

\* onQueryResult of the census query builder, for a result with data and a
\* time column
CensusQueryResult ==
    /\ Panel(dash.selectedSource) = "census"
    /\ \E variables \in CensusVariables :
         /\ datasets' = AddCensusVariables(datasets, "acs", variables)
         /\ response' = Response("census", <<>>, TRUE,
                                 [i \in 1..Len(variables) |->
                                    CensusDatasetId("acs", variables[i])])
    /\ pc' = "censusDone"
    /\ UNCHANGED <<policyVars, chartData, formatVars, dateVars, configVars,
                   lineVars, tooltipVars, dash, request, acVars, censusVars>>

\* handleRemoveGraph(dataset.id) from the button of a graph card
RemoveGraph ==
    /\ \E k \in 1..Len(datasets) :
         LET Keeps(ds) == ds.id # datasets[k].id
         IN  datasets' = SelectSeq(datasets, Keeps)
    /\ pc' = "removed"
    /\ UNCHANGED <<policyVars, chartData, formatVars, dateVars, configVars,
                   lineVars, tooltipVars, dashVars, acVars, censusVars>>

NextDashboard ==
    \/ SelectSource
    \/ TypeSymbol
    \/ ClickFetchData
    \/ DirectEntry
    \/ SeriesSettles
    \/ FetchIndicators
    \/ IndicatorsSettle
    \/ CensusQueryResult
    \/ RemoveGraph

SpecDashboard == InitDashboard /\ [][NextDashboard]_vars

(***************************************************************************)
(* Properties of the dashboard, checked under SpecDashboard.               *)
(***************************************************************************)
\* C23: the dataset list never holds two datasets with the same id.
C23_DatasetIdsUnique ==
    \A i, j \in 1..Len(datasets) : i # j => datasets[i].id # datasets[j].id

\* a series was fetched whose id the list already had, ahead of another
\* dataset: the list still has it once
C23_Witness ==
    /\ pc = "seriesDone"
    /\ response.ok
    /\ Len(datasets) >= 2
    /\ datasets[1].id = response.ids[1]

\* C26: when handleDirectEntry completes after a failed fetch, the direct
\* entry input still holds the symbol that was entered.
C26_SymbolKeptOnFailure ==
    pc = "directEntryDone" /\ ~response.ok =>
        trim(dash.directEntrySymbol) = response.seriesId

(***************************************************************************)
(* AutocompleteInput.  The effect runs after the mount and after every     *)
(* render in which value or disabled changed: it clears the timeout of the *)
(* run before and sets a new one.  A getSuggestions call that has started  *)
(* is not cancelled by anything.                                           *)
(***************************************************************************)
MaxInFlight == 2

AcValues == {<<>>, <<" ">>, <<"a">>, <<"a", "b">>, <<"a", "b", "c">>}

\* response.suggestions (their symbols) of getSuggestions for a query: the
\* server's answer is a function of the query
Suggest(query) ==
    CASE query = <<"a">> -> << <<"a">>, <<"a", "b">>, <<"a", "b", "c">> >>
      [] query = <<"a", "b">> -> << <<"a", "b">>, <<"a", "b", "c">> >>
      [] query = <<"a", "b", "c">> -> << <<"a", "b", "c">> >>
      [] OTHER -> <<>>

\* the effect of a render with the given props, after one without them
RunEffect(next) ==
    IF next.value # ac.value \/ next.disabled # ac.disabled
    THEN Timer(next.value, next.disabled)
    ELSE timer

InitAutocomplete ==
    /\ pc = "autocomplete"
    /\ ac = AcInit
    /\ timer = Timer(<<>>, FALSE)
    /\ inflight = <<>>
    /\ CoreIdle
    /\ LinesIdle
    /\ TooltipIdle
    /\ DashIdle
    /\ CensusIdle

\* handleInputChange: onChange(e.target.value), which the parent stores and
\* hands back as value, and setShowSuggestions(true)
InputChange ==
    /\ ~ac.disabled
    /\ \E text \in AcValues :
         LET next == [ac EXCEPT !.value = text, !.showSuggestions = TRUE]
         IN  ac' = next /\ timer' = RunEffect(next)
    /\ pc' = "changed"
    /\ UNCHANGED <<coreVars, lineVars, tooltipVars, dashVars, censusVars, inflight>>

\* the parent renders the input with another disabled prop
SetDisabled ==
    /\ \E disabled \in BOOLEAN :
         LET next == [ac EXCEPT !.disabled = disabled]
         IN  ac # next /\ ac' = next /\ timer' = RunEffect(next)
    /\ pc' = "rendered"
    /\ UNCHANGED <<coreVars, lineVars, tooltipVars, dashVars, censusVars, inflight>>

\* the timeout fires: fetchSuggestions up to its return or its await
TimerFires ==
    /\ timer.set
    /\ IF trim(timer.value) = <<>> \/ timer.disabled
       THEN /\ ac' = [ac EXCEPT !.suggestions = <<>>, !.showSuggestions = FALSE]
            /\ UNCHANGED inflight
       ELSE /\ Len(inflight) < MaxInFlight
            /\ ac' = [ac EXCEPT !.loading = TRUE]
            /\ inflight' = Append(inflight, timer.value)
    /\ timer' = NoTimer
    /\ pc' = "fired"
    /\ UNCHANGED <<coreVars, lineVars, tooltipVars, dashVars, censusVars>>

\* the try block after the await, and the finally
Answered(state, query) ==
    [state EXCEPT !.suggestions = Suggest(query),
                  !.showSuggestions = Len(Suggest(query)) > 0,
                  !.selectedIndex = -1,
                  !.loading = FALSE]

\* the catch block, and the finally
Failed(state) ==
    [state EXCEPT !.suggestions = <<>>, !.showSuggestions = FALSE, !.loading = FALSE]

\* a getSuggestions call settles, in whatever order the answers arrive
SuggestionsSettle ==
    /\ \E i \in 1..Len(inflight), ok \in BOOLEAN :
         /\ ac' = IF ok THEN Answered(ac, inflight[i]) ELSE Failed(ac)
         /\ inflight' = SubSeq(inflight, 1, i - 1) \o SubSeq(inflight, i + 1, Len(inflight))
    /\ pc' = "settled"
    /\ UNCHANGED <<coreVars, lineVars, tooltipVars, dashVars, censusVars, timer>>

\* handleSuggestionClick(suggestion)
SuggestionClicked(symbol) == [ac EXCEPT !.value = symbol, !.showSuggestions = FALSE]

\* handleKeyDown for ArrowDown, ArrowUp, Enter and Escape while the list is
\* open; with the list closed, and for Enter with nothing highlighted, it
\* changes nothing here (onKeyPress is the parent's)
KeyDown ==
    /\ ~ac.disabled
    /\ ac.showSuggestions /\ Len(ac.suggestions) # 0
    /\ \E key \in {"ArrowDown", "ArrowUp", "Enter", "Escape"} :
         LET next ==
               CASE key = "ArrowDown" ->
                      [ac EXCEPT !.selectedIndex =
                         IF @ < Len(ac.suggestions) - 1 THEN @ + 1 ELSE @]
                 [] key = "ArrowUp" ->
                      [ac EXCEPT !.selectedIndex = IF @ > 0 THEN @ - 1 ELSE -1]
                 [] key = "Enter" ->
                      IF ac.selectedIndex >= 0 /\ ac.selectedIndex < Len(ac.suggestions)
                      THEN SuggestionClicked(ac.suggestions[ac.selectedIndex + 1])
                      ELSE ac
                 [] OTHER ->
                      [ac EXCEPT !.showSuggestions = FALSE, !.selectedIndex = -1]
         IN  ac' = next /\ timer' = RunEffect(next)
    /\ pc' = "key"
    /\ UNCHANGED <<coreVars, lineVars, tooltipVars, dashVars, censusVars, inflight>>

\* onMouseEnter and onClick of a suggestion of the open list
Mouse ==
    /\ ac.showSuggestions /\ Len(ac.suggestions) # 0
    /\ \E index \in 0..(Len(ac.suggestions) - 1), click \in BOOLEAN :
         LET next == IF click THEN SuggestionClicked(ac.suggestions[index + 1])
                     ELSE [ac EXCEPT !.selectedIndex = index]
         IN  ac' = next /\ timer' = RunEffect(next)
    /\ pc' = "mouse"
    /\ UNCHANGED <<coreVars, lineVars, tooltipVars, dashVars, censusVars, inflight>>

\* handleInputFocus, and the timeout of handleInputBlur
FocusOrBlur ==
    /\ \E focus \in BOOLEAN :
         ac' = IF focus
               THEN [ac EXCEPT !.showSuggestions = IF Len(ac.suggestions) > 0 THEN TRUE ELSE @]
               ELSE [ac EXCEPT !.showSuggestions = FALSE]
    /\ pc' = "focus"
    /\ UNCHANGED <<coreVars, lineVars, tooltipVars, dashVars, censusVars, timer, inflight>>

NextAutocomplete ==
    \/ InputChange
    \/ SetDisabled
    \/ TimerFires
    \/ SuggestionsSettle
    \/ KeyDown
    \/ Mouse
    \/ FocusOrBlur

SpecAutocomplete == InitAutocomplete /\ [][NextAutocomplete]_vars

(***************************************************************************)
(* Properties of AutocompleteInput, checked under SpecAutocomplete.        *)
(***************************************************************************)
\* C28: the highlighted index is -1 or the index of an existing suggestion.
C28_SelectedIndexInRange ==
    ac.selectedIndex >= -1 /\ (ac.selectedIndex = -1 \/ ac.selectedIndex < Len(ac.suggestions))

\* C29: once no timeout is pending and no request is in flight, the
\* suggestions are those of the current value: what the server returns for
\* it, or none (a blank value, a disabled input, a failed request).
C29_SuggestionsOfLatestValue ==
    ~timer.set /\ inflight = <<>> =>
        ac.suggestions \in {Suggest(ac.value), <<>>}

(***************************************************************************)
(* CensusQueryBuilder: the loading flag and the requests in flight.  The   *)
(* search text, the geography inputs and the time range keep their initial *)
(* values; none of them starts a request or touches the flag.              *)
(***************************************************************************)
\* the most requests in flight at once
MaxPending == 3

\* the elements of an array
Range(array) == {array[i] : i \in 1..Len(array)}

\* what fetchCensusDatasets answers: a year-based dataset and a time series
CensusCatalog ==
    << [id |-> "acs", years |-> <<2020, 2021>>],
       [id |-> "timeseries", years |-> <<>>] >>

\* d.id.startsWith('timeseries')
startsWithTimeseries(id) == id = "timeseries"

\* what fetchCensusVariables answers for a dataset: the time series has no
\* variable discovery
CensusVariablesOf(dataset) ==
    IF startsWithTimeseries(dataset) THEN <<>> ELSE <<"POP", "BIRTHS">>

\* what the manual entry parses out of the text typed
ManualEntries == {<<>>, <<"POP">>}

\* a request started by the component, with the values of the render that
\* started it
CensusRequest(kind, dataset, year) == [kind |-> kind, dataset |-> dataset, year |-> year]

Truthy(year) == year.k = "num" /\ year.n # 0

\* Math.max(...dataset.years)
MaxYear(years) == CHOOSE y \in Range(years) : \A z \in Range(years) : z <= y

\* datasets.find(d => d.id === datasetId)?.years, [] where nothing is found
YearsOf(state, datasetId) ==
    LET found == SelectSeq(state.datasets, LAMBDA d : d.id = datasetId)
    IN  IF found = <<>> THEN <<>> ELSE found[1].years

filteredDatasets(state) ==
    SelectSeq(state.datasets,
              LAMBDA d : IF state.datasetType = "year_based" THEN ~startsWithTimeseries(d.id)
                         ELSE IF state.datasetType = "timeseries" THEN startsWithTimeseries(d.id)
                         ELSE TRUE)

\* the two effects on selectedDataset and selectedYear, run after a render
\* that changed a dependency
VariablesEffect(prev, next) ==
    /\ prev.selectedDataset # next.selectedDataset \/ prev.selectedYear # next.selectedYear
    /\ next.selectedDataset # ""

GeographiesEffect(prev, next) ==
    prev.selectedDataset # next.selectedDataset /\ next.selectedDataset # ""

\* the requests the effects start: loadVariables, then loadGeographies
EffectRequests(prev, next) ==
    (IF VariablesEffect(prev, next)
     THEN <<CensusRequest("variables", next.selectedDataset, next.selectedYear)>>
     ELSE <<>>)
    \o (IF GeographiesEffect(prev, next)
        THEN <<CensusRequest("geographies", next.selectedDataset, Null)>>
        ELSE <<>>)

\* the state once the effects have run to their await: setLoading(true), and
\* setVariables([]) in loadVariables
AfterEffects(prev, next) ==
    LET loadsVariables == VariablesEffect(prev, next)
        loadsGeographies == GeographiesEffect(prev, next)
    IN  [next EXCEPT !.loading = IF loadsVariables \/ loadsGeographies THEN TRUE ELSE @,
                     !.variables = IF loadsVariables THEN <<>> ELSE @]

\* a handler's state update followed by the effects
Update(next) ==
    /\ Len(pending) + Len(EffectRequests(census, next)) <= MaxPending
    /\ census' = AfterEffects(census, next)
    /\ pending' = pending \o EffectRequests(census, next)

\* the component mounted: loadDatasets has reached its await
InitCensus ==
    /\ pc = "census"
    /\ census = [CensusInit EXCEPT !.loading = TRUE]
    /\ pending = <<CensusRequest("datasets", "", Null)>>
    /\ callback = NoCallback
    /\ CoreIdle
    /\ LinesIdle
    /\ TooltipIdle
    /\ DashIdle
    /\ AutocompleteIdle

handleDatasetTypeSelect ==
    /\ \E type \in {"", "year_based", "timeseries"} \ {census.datasetType} :
           Update([census EXCEPT !.datasetType = type,
                                 !.selectedDataset = "",
                                 !.selectedYear = Null,
                                 !.selectedVariables = <<>>,
                                 !.variables = <<>>])
    /\ pc' = "datasetType"
    /\ UNCHANGED <<coreVars, lineVars, tooltipVars, dashVars, acVars, callback>>

handleDatasetSelect ==
    /\ census.datasetType # ""
    /\ \E datasetId \in ({""} \cup {d.id : d \in Range(filteredDatasets(census))})
                            \ {census.selectedDataset} :
           LET years == YearsOf(census, datasetId)
           IN  Update([census EXCEPT !.selectedDataset = datasetId,
                                     !.selectedVariables = <<>>,
                                     !.selectedYear =
                                         IF Len(years) > 0 THEN Num(MaxYear(years)) ELSE Null])
    /\ pc' = "dataset"
    /\ UNCHANGED <<coreVars, lineVars, tooltipVars, dashVars, acVars, callback>>

\* what the year select shows for a selected year: selectedYear || ''
ShownYear(year) == IF Truthy(year) THEN year ELSE NaN

\* the year select: setSelectedYear(parseInt(e.target.value)), NaN for the
\* empty option
SelectYear ==
    /\ census.selectedDataset # ""
    /\ census.datasetType = "year_based"
    /\ \E year \in ({NaN} \cup {Num(y) : y \in Range(YearsOf(census, census.selectedDataset))})
                       \ {ShownYear(census.selectedYear)} :
           Update([census EXCEPT !.selectedYear = year])
    /\ pc' = "year"
    /\ UNCHANGED <<coreVars, lineVars, tooltipVars, dashVars, acVars, callback>>

\* the variable section is rendered
VariablesShown ==
    /\ census.selectedDataset # ""
    /\ census.datasetType = "timeseries" \/ Truthy(census.selectedYear)

handleVariableToggle ==
    /\ \E variableId \in Range(census.selectedVariables)
                             \cup (IF VariablesShown THEN Range(census.variables) ELSE {}) :
           Update([census EXCEPT !.selectedVariables =
                       IF variableId \in Range(@)
                       THEN SelectSeq(@, LAMBDA id : id # variableId)
                       ELSE Append(@, variableId)])
    /\ VariablesShown
    /\ pc' = "toggle"
    /\ UNCHANGED <<coreVars, lineVars, tooltipVars, dashVars, acVars, callback>>

\* the manual entry, offered while no variables are listed and nothing loads
ManualEntry ==
    /\ VariablesShown
    /\ census.variables = <<>>
    /\ ~census.loading
    /\ \E entered \in ManualEntries \ {census.selectedVariables} :
           Update([census EXCEPT !.selectedVariables = entered])
    /\ pc' = "manual"
    /\ UNCHANGED <<coreVars, lineVars, tooltipVars, dashVars, acVars, callback>>

\* the Execute button is rendered and not disabled
ExecuteEnabled ==
    /\ Len(census.selectedVariables) > 0
    /\ census.datasetType = "year_based" => Truthy(census.selectedYear)
    /\ ~census.loading

handleExecuteQuery ==
    /\ ExecuteEnabled
    /\ IF census.selectedDataset = "" \/ Len(census.selectedVariables) = 0
       THEN /\ callback' = Callback("onError", "Please select a dataset and at least one variable")
            /\ UNCHANGED <<census, pending>>
       ELSE /\ Len(pending) < MaxPending
            /\ census' = [census EXCEPT !.loading = TRUE]
            /\ pending' = Append(pending, CensusRequest("query", census.selectedDataset,
                                                        census.selectedYear))
            /\ UNCHANGED callback
    /\ pc' = "execute"
    /\ UNCHANGED <<coreVars, lineVars, tooltipVars, dashVars, acVars>>

\* the pending requests without the i-th
Settled(i) == SubSeq(pending, 1, i - 1) \o SubSeq(pending, i + 1, Len(pending))

\* loadDatasets after its await
DatasetsSettle ==
    /\ \E i \in 1..Len(pending), ok \in BOOLEAN :
           /\ pending[i].kind = "datasets"
           /\ pending' = Settled(i)
           /\ census' = [census EXCEPT !.datasets = IF ok THEN CensusCatalog ELSE @,
                                      !.loading = FALSE]
           /\ callback' = IF ok THEN callback
                          ELSE Callback("onError", "Failed to load datasets")
    /\ pc' = "datasetsSettled"
    /\ UNCHANGED <<coreVars, lineVars, tooltipVars, dashVars, acVars>>

\* loadVariables after its await
VariablesSettle ==
    /\ \E i \in 1..Len(pending), ok \in BOOLEAN :
           LET found == CensusVariablesOf(pending[i].dataset)
           IN  /\ pending[i].kind = "variables"
               /\ pending' = Settled(i)
               /\ census' = [census EXCEPT !.variables = IF ok /\ Len(found) > 0 THEN found
                                                         ELSE IF ok THEN @ ELSE <<>>,
                                           !.loading = FALSE]
               /\ callback' = IF ok /\ Len(found) > 0 THEN callback
                              ELSE IF ok THEN Callback("onError", "No variables found for this dataset")
                              ELSE Callback("onError", "Failed to load variables")
    /\ pc' = "variablesSettled"
    /\ UNCHANGED <<coreVars, lineVars, tooltipVars, dashVars, acVars>>

\* loadGeographies after its await
GeographiesSettle ==
    /\ \E i \in 1..Len(pending), ok \in BOOLEAN :
           /\ pending[i].kind = "geographies"
           /\ pending' = Settled(i)
           /\ census' = [census EXCEPT !.geographies = IF ok THEN <<"us:1", "state:*">> ELSE @,
                                      !.loading = FALSE]
           /\ callback' = IF ok THEN callback
                          ELSE Callback("onError", "Failed to load geographies")
    /\ pc' = "geographiesSettled"
    /\ UNCHANGED <<coreVars, lineVars, tooltipVars, dashVars, acVars>>

\* handleExecuteQuery after its await
QuerySettle ==
    /\ \E i \in 1..Len(pending), ok \in BOOLEAN :
           /\ pending[i].kind = "query"
           /\ pending' = Settled(i)
           /\ census' = [census EXCEPT !.loading = FALSE]
           /\ callback' = IF ok THEN Callback("onQueryResult", pending[i].dataset)
                          ELSE Callback("onError", "Failed to execute query")
    /\ pc' = "querySettled"
    /\ UNCHANGED <<coreVars, lineVars, tooltipVars, dashVars, acVars>>

NextCensus ==
    \/ handleDatasetTypeSelect
    \/ handleDatasetSelect
    \/ SelectYear
    \/ handleVariableToggle
    \/ ManualEntry
    \/ handleExecuteQuery
    \/ DatasetsSettle
    \/ VariablesSettle
    \/ GeographiesSettle
    \/ QuerySettle

SpecCensus == InitCensus /\ [][NextCensus]_vars

\* C30: while a request of the component is in flight its loading flag is
\* true, so the Execute button stays disabled until every load has settled.
C30_LoadingWhilePending == pending # <<>> => census.loading

(***************************************************************************)
(* The components together: each behaviour exercises one of them.          *)
(***************************************************************************)
Init ==
    \/ InitPolicy
    \/ InitMalformed
    \/ InitAlign
    \/ InitFormat
    \/ InitDates
    \/ InitConfig
    \/ InitLines
    \/ InitTooltip
    \/ InitDashboard
    \/ InitAutocomplete
    \/ InitCensus

Next ==
    \/ NextPolicy
    \/ NextAlign
    \/ NextFormat
    \/ NextDates
    \/ NextConfig
    \/ NextLines
    \/ NextTooltip
    \/ NextDashboard
    \/ NextAutocomplete
    \/ NextCensus

Spec == Init /\ [][Next]_vars

=============================================================================
